---- MODULE Spec2Model ----
(***************************************************************************)
(* Model of the chess rules engine and search of zully/chess-engine.       *)
(*                                                                         *)
(* Strings are sequences of one-character strings ("e2" is <<"e","2">>,    *)
(* the empty string is <<>>), so that square names, UCI moves and move     *)
(* notations are built and taken apart the way the Go code does it.        *)
(* A Board value is a record with the fields of board.Board; Squares is    *)
(* indexed rank*8+file with rank 0 = the eighth rank, as in the code.      *)
(***************************************************************************)
EXTENDS Integers, Sequences, FiniteSets, TLC

\* ---------------------------------------------------------------- pieces
Empty == 0
WP == 1
WN == 2
WB == 3
WR == 4
WQ == 5
WK == 6
BP == 7
BN == 8
BB == 9
BR == 10
BQ == 11
BK == 12

Idx == 0..7

abs(x) == IF x < 0 THEN 0 - x ELSE x

sign(x) == IF x < 0 THEN 0 - 1 ELSE IF x > 0 THEN 1 ELSE 0

min(x, y) == IF x < y THEN x ELSE y

max(x, y) == IF x > y THEN x ELSE y

InRange(r, f) == r >= 0 /\ r < 8 /\ f >= 0 /\ f < 8

\* ------------------------------------------------------------ coordinates
FileChars == <<"a", "b", "c", "d", "e", "f", "g", "h">>

RankChars == <<"1", "2", "3", "4", "5", "6", "7", "8">>

FileOf(c) == IF \E i \in 1..8 : FileChars[i] = c
             THEN (CHOOSE i \in 1..8 : FileChars[i] = c) - 1 ELSE 0 - 1

DigitOf(c) == IF \E i \in 1..8 : RankChars[i] = c
              THEN (CHOOSE i \in 1..8 : RankChars[i] = c) - 1 ELSE 0 - 1

\* getSquareCoords: <<rank, file>>, <<-1,-1>> for anything but a file
\* letter a-h followed by a digit 1-8.
GetSquareCoords(square) ==
    IF Len(square) < 1 THEN <<0 - 1, 0 - 1>>
    ELSE IF FileOf(square[1]) < 0 THEN <<0 - 1, 0 - 1>>
    ELSE IF Len(square) = 2
         THEN IF DigitOf(square[2]) < 0 THEN <<0 - 1, 0 - 1>>
              ELSE <<7 - DigitOf(square[2]), FileOf(square[1])>>
    ELSE IF Len(square) > 2 /\ square[2] = "*"
         THEN <<0 - 1, FileOf(square[1])>>
    ELSE <<0 - 1, 0 - 1>>

GetSquareName(rank, file) == <<FileChars[file + 1], RankChars[(7 - rank) + 1]>>

\* ------------------------------------------------------------------ board
GetPiece(b, rank, file) == b.Squares[rank * 8 + file]

IsSquareEmpty(b, rank, file) == GetPiece(b, rank, file) = Empty

SetPiece(b, rank, file, piece) ==
    [b EXCEPT !.Squares = [@ EXCEPT ![rank * 8 + file] = piece]]

\* GetSquare: the addressed square's index, or -1 for the nil pointer.
GetSquare(b, name) ==
    LET At(c) == IF c[1] < 0 \/ c[1] > 7 \/ c[2] < 0 \/ c[2] > 7 THEN 0 - 1
                 ELSE c[1] * 8 + c[2]
    IN At(GetSquareCoords(name))

GetSquareByCoords(rank, file) ==
    IF rank < 0 \/ file < 0 \/ rank > 7 \/ file > 7 THEN 0 - 1
    ELSE rank * 8 + file

\* GetPositionHash.  The FNV-1a fold over (piece<<8|square) for the 64
\* squares, the turn bit, the castling rights and the characters of the
\* en-passant square is represented by the sequence of values it absorbs.
GetPositionHash(b) ==
    <<b.Squares, IF b.WhiteToMove THEN 1 ELSE 0, b.CastlingRights, b.EnPassant>>

\* PositionHistory is a Go map: a function whose domain is the set of keys
\* present; reading an absent key gives 0.
HistoryGet(h, k) == IF k \in DOMAIN h THEN h[k] ELSE 0

HistoryPut(h, k, v) == [x \in (DOMAIN h) \cup {k} |-> IF x = k THEN v ELSE h[x]]

HistoryDelete(h, k) == [x \in (DOMAIN h) \ {k} |-> h[x]]

RecordPosition(b) ==
    LET hash == GetPositionHash(b)
    IN [b EXCEPT !.PositionHistory = HistoryPut(@, hash, HistoryGet(@, hash) + 1)]

GetPositionCount(b) == HistoryGet(b.PositionHistory, GetPositionHash(b))

IsThreefoldRepetition(b) == GetPositionCount(b) >= 3

InitialSquares ==
    [i \in 0..63 |->
        LET rank == i \div 8
            file == i % 8
        IN CASE rank = 7 -> <<WR, WN, WB, WQ, WK, WB, WN, WR>>[file + 1]
             [] rank = 6 -> WP
             [] rank = 1 -> BP
             [] rank = 0 -> <<BR, BN, BB, BQ, BK, BB, BN, BR>>[file + 1]
             [] OTHER -> Empty]

NewBoard ==
    RecordPosition([Squares |-> InitialSquares,
                    WhiteToMove |-> TRUE,
                    CastlingRights |-> 15,
                    EnPassant |-> <<>>,
                    HalfMoveClock |-> 0,
                    FullMoveNumber |-> 1,
                    MovesPlayed |-> <<>>,
                    PositionHistory |-> <<>>])

\* ------------------------------------------------------- movement rules
IsWhitePiece(piece) == piece < BP

canPawnMove(b, fromRank, fromFile, toRank, toFile, isCapture) ==
    LET piece == GetPiece(b, fromRank, fromFile)
        isWhite == piece < BP
        direction == IF isWhite THEN 0 - 1 ELSE 1
        isStartRank == IF isWhite THEN fromRank = 6 ELSE fromRank = 1
        rankDiff == toRank - fromRank
    IN IF isCapture
       THEN IF abs(toFile - fromFile) # 1 \/ rankDiff # direction THEN FALSE
            ELSE LET targetPiece == GetPiece(b, toRank, toFile)
                 IN targetPiece # Empty
                    /\ ((isWhite /\ targetPiece >= BP) \/ (~isWhite /\ targetPiece < BP))
       ELSE IF fromFile # toFile THEN FALSE
       ELSE IF rankDiff = direction THEN IsSquareEmpty(b, toRank, toFile)
       ELSE IF isStartRank /\ rankDiff = 2 * direction
            THEN IsSquareEmpty(b, toRank, toFile)
                 /\ IsSquareEmpty(b, fromRank + direction, fromFile)
       ELSE FALSE

canBishopMove(b, fromRank, fromFile, toRank, toFile) ==
    IF abs(toRank - fromRank) # abs(toFile - fromFile) THEN FALSE
    ELSE LET rankStep == sign(toRank - fromRank)
             fileStep == sign(toFile - fromFile)
         IN \A d \in 1..(abs(toRank - fromRank) - 1) :
                IsSquareEmpty(b, fromRank + d * rankStep, fromFile + d * fileStep)

canRookMove(b, fromRank, fromFile, toRank, toFile) ==
    IF fromRank # toRank /\ fromFile # toFile THEN FALSE
    ELSE IF fromRank = toRank
         THEN LET step == sign(toFile - fromFile)
              IN \A d \in 1..(abs(toFile - fromFile) - 1) :
                     IsSquareEmpty(b, fromRank, fromFile + d * step)
         ELSE LET step == sign(toRank - fromRank)
              IN \A d \in 1..(abs(toRank - fromRank) - 1) :
                     IsSquareEmpty(b, fromRank + d * step, fromFile)

canQueenMove(b, fromRank, fromFile, toRank, toFile) ==
    canBishopMove(b, fromRank, fromFile, toRank, toFile)
    \/ canRookMove(b, fromRank, fromFile, toRank, toFile)

canKnightMove(startRank, startFile, endRank, endFile) ==
    LET rankDiff == abs(endRank - startRank)
        fileDiff == abs(endFile - startFile)
    IN (rankDiff = 2 /\ fileDiff = 1) \/ (rankDiff = 1 /\ fileDiff = 2)

canKingMove(startRank, startFile, endRank, endFile) ==
    abs(endRank - startRank) <= 1 /\ abs(endFile - startFile) <= 1

isValidMove(b, piece, fromRank, fromFile, toRank, toFile, isCapture) ==
    CASE piece \in {WP, BP} -> canPawnMove(b, fromRank, fromFile, toRank, toFile, isCapture)
      [] piece \in {WN, BN} -> canKnightMove(fromRank, fromFile, toRank, toFile)
      [] piece \in {WB, BB} -> canBishopMove(b, fromRank, fromFile, toRank, toFile)
      [] piece \in {WR, BR} -> canRookMove(b, fromRank, fromFile, toRank, toFile)
      [] piece \in {WQ, BQ} -> canQueenMove(b, fromRank, fromFile, toRank, toFile)
      [] piece \in {WK, BK} -> canKingMove(fromRank, fromFile, toRank, toFile)
      [] OTHER -> FALSE

\* findKing: <<rank, file>> of the first king found rank-major, <<-1,-1>>
\* when the board holds none.
findKing(b, isWhite) ==
    LET kingPiece == IF isWhite THEN WK ELSE BK
        S == {i \in 0..63 : b.Squares[i] = kingPiece}
    IN IF S = {} THEN <<0 - 1, 0 - 1>>
       ELSE LET i == CHOOSE i \in S : \A j \in S : i <= j
            IN <<i \div 8, i % 8>>

KnightOffsets ==
    <<<<0 - 2, 0 - 1>>, <<0 - 2, 1>>, <<0 - 1, 0 - 2>>, <<0 - 1, 2>>,
      <<1, 0 - 2>>, <<1, 2>>, <<2, 0 - 1>>, <<2, 1>>>>

DiagonalDirs == <<<<0 - 1, 0 - 1>>, <<0 - 1, 1>>, <<1, 0 - 1>>, <<1, 1>>>>

StraightDirs == <<<<0 - 1, 0>>, <<1, 0>>, <<0, 0 - 1>>, <<0, 1>>>>

\* A ray that sees an attacker behind other pieces.
RayHitsThroughPieces(b, rank, file, dir, attackers) ==
    \E d \in 1..8 :
        /\ InRange(rank + d * dir[1], file + d * dir[2])
        /\ GetPiece(b, rank + d * dir[1], file + d * dir[2]) \in attackers

\* The first piece met from (rank,file) along dir is one of attackers.
RayHits(b, rank, file, dir, attackers) ==
    \E d \in 1..8 :
        /\ InRange(rank + d * dir[1], file + d * dir[2])
        /\ GetPiece(b, rank + d * dir[1], file + d * dir[2]) \in attackers
        /\ \A e \in 1..(d - 1) :
               /\ InRange(rank + e * dir[1], file + e * dir[2])
               /\ IsSquareEmpty(b, rank + e * dir[1], file + e * dir[2])

isSquareAttacked(b, rank, file, attackerIsWhite) ==
    LET direction == IF attackerIsWhite THEN 0 - 1 ELSE 1
        attackerPawn == IF attackerIsWhite THEN WP ELSE BP
        attackerKnight == IF attackerIsWhite THEN WN ELSE BN
        attackerBishop == IF attackerIsWhite THEN WB ELSE BB
        attackerRook == IF attackerIsWhite THEN WR ELSE BR
        attackerQueen == IF attackerIsWhite THEN WQ ELSE BQ
        attackerKing == IF attackerIsWhite THEN WK ELSE BK
    IN \/ /\ rank - direction >= 0
          /\ rank - direction < 8
          /\ \/ file - 1 >= 0 /\ GetPiece(b, rank - direction, file - 1) = attackerPawn
             \/ file + 1 < 8 /\ GetPiece(b, rank - direction, file + 1) = attackerPawn
       \/ \E k \in 1..8 :
              /\ InRange(rank + KnightOffsets[k][1], file + KnightOffsets[k][2])
              /\ GetPiece(b, rank + KnightOffsets[k][1], file + KnightOffsets[k][2])
                    = attackerKnight
       \/ \E k \in 1..4 :
              RayHits(b, rank, file, DiagonalDirs[k], {attackerBishop, attackerQueen})
       \/ \E k \in 1..4 :
              RayHits(b, rank, file, StraightDirs[k], {attackerRook, attackerQueen})
       \/ \E r \in (rank - 1)..(rank + 1), f \in (file - 1)..(file + 1) :
              /\ InRange(r, f)
              /\ (r # rank \/ f # file)
              /\ GetPiece(b, r, f) = attackerKing

IsInCheck(b, isWhite) ==
    LET k == findKing(b, isWhite)
    IN isSquareAttacked(b, k[1], k[2], ~isWhite)

\* ----------------------------------------------------------------- castling
\* Castling rights are bits: 1 = white kingside, 2 = white queenside,
\* 4 = black kingside, 8 = black queenside.
HasBit(x, bit) == (x \div bit) % 2 = 1

\* x &^ mask
AndNot(x, mask) ==
    x - (IF HasBit(x, 1) /\ HasBit(mask, 1) THEN 1 ELSE 0)
      - (IF HasBit(x, 2) /\ HasBit(mask, 2) THEN 2 ELSE 0)
      - (IF HasBit(x, 4) /\ HasBit(mask, 4) THEN 4 ELSE 0)
      - (IF HasBit(x, 8) /\ HasBit(mask, 8) THEN 8 ELSE 0)

KingSide == <<"O", "-", "O">>

QueenSide == <<"O", "-", "O", "-", "O">>

hasCastlingRights(b, castleType, isWhite) ==
    IF isWhite
    THEN IF castleType = KingSide THEN HasBit(b.CastlingRights, 1)
         ELSE IF castleType = QueenSide THEN HasBit(b.CastlingRights, 2)
         ELSE FALSE
    ELSE IF castleType = KingSide THEN HasBit(b.CastlingRights, 4)
         ELSE IF castleType = QueenSide THEN HasBit(b.CastlingRights, 8)
         ELSE FALSE

canCastle(b, castleType, isWhite) ==
    IF IsInCheck(b, isWhite) THEN FALSE
    ELSE IF castleType # KingSide /\ castleType # QueenSide THEN FALSE
    ELSE LET kingRank == IF isWhite THEN 7 ELSE 0
             kingFromFile == 4
             kingToFile == IF castleType = KingSide THEN 6 ELSE 2
             rookFromFile == IF castleType = KingSide THEN 7 ELSE 0
             expectedKing == IF isWhite THEN WK ELSE BK
             expectedRook == IF isWhite THEN WR ELSE BR
         IN /\ GetPiece(b, kingRank, kingFromFile) = expectedKing
            /\ GetPiece(b, kingRank, rookFromFile) = expectedRook
            /\ \A file \in (min(kingFromFile, rookFromFile) + 1)..(max(kingFromFile, rookFromFile) - 1) :
                   IsSquareEmpty(b, kingRank, file)
            /\ \A file \in min(kingFromFile, kingToFile)..max(kingFromFile, kingToFile) :
                   ~isSquareAttacked(b, kingRank, file, ~isWhite)
            /\ hasCastlingRights(b, castleType, isWhite)

updateCastlingRights(b, fromSquare, piece) ==
    LET mask == CASE fromSquare = <<"e", "1">> /\ piece = WK -> 3
                  [] fromSquare = <<"a", "1">> /\ piece = WR -> 2
                  [] fromSquare = <<"h", "1">> /\ piece = WR -> 1
                  [] fromSquare = <<"e", "8">> /\ piece = BK -> 12
                  [] fromSquare = <<"a", "8">> /\ piece = BR -> 8
                  [] fromSquare = <<"h", "8">> /\ piece = BR -> 4
                  [] OTHER -> 0
    IN [b EXCEPT !.CastlingRights = AndNot(@, mask)]

\* executeCastling moves whatever stands on the king's and the rook's home
\* squares; the rook's move reads the board after the king's.
executeCastling(b, castleType, isWhite) ==
    LET kingRank == IF isWhite THEN 7 ELSE 0
        kingFromFile == 4
        kingToFile == IF castleType = KingSide THEN 6 ELSE 2
        rookFromFile == IF castleType = KingSide THEN 7 ELSE 0
        rookToFile == IF castleType = KingSide THEN 5 ELSE 3
        kingPiece == GetPiece(b, kingRank, kingFromFile)
        b1 == SetPiece(SetPiece(b, kingRank, kingFromFile, Empty), kingRank, kingToFile, kingPiece)
        rookPiece == GetPiece(b1, kingRank, rookFromFile)
    IN SetPiece(SetPiece(b1, kingRank, rookFromFile, Empty), kingRank, rookToFile, rookPiece)

\* ------------------------------------------------------------ characters
LowerChars == <<"a", "b", "c", "d", "e", "f", "g", "h", "i", "j", "k", "l", "m",
                "n", "o", "p", "q", "r", "s", "t", "u", "v", "w", "x", "y", "z">>

UpperChars == <<"A", "B", "C", "D", "E", "F", "G", "H", "I", "J", "K", "L", "M",
                "N", "O", "P", "Q", "R", "S", "T", "U", "V", "W", "X", "Y", "Z">>

isUpperCase(c) == \E i \in 1..26 : UpperChars[i] = c

ToUpperChar(c) == IF \E i \in 1..26 : LowerChars[i] = c
                  THEN UpperChars[CHOOSE i \in 1..26 : LowerChars[i] = c] ELSE c

ToLowerChar(c) == IF \E i \in 1..26 : UpperChars[i] = c
                  THEN LowerChars[CHOOSE i \in 1..26 : UpperChars[i] = c] ELSE c

ToLower(s) == [i \in 1..Len(s) |-> ToLowerChar(s[i])]

Contains(s, c) == \E i \in 1..Len(s) : s[i] = c

GetPieceType(piece) ==
    CASE piece \in {WP, BP} -> <<"P">>
      [] piece \in {WN, BN} -> <<"N">>
      [] piece \in {WB, BB} -> <<"B">>
      [] piece \in {WR, BR} -> <<"R">>
      [] piece \in {WQ, BQ} -> <<"Q">>
      [] piece \in {WK, BK} -> <<"K">>
      [] OTHER -> <<>>

\* The disambiguation text from the set of other squares whose piece could
\* also make the move.
DisambiguationText(others, fromRank, fromFile) ==
    IF others = {} THEN <<>>
    ELSE IF \A i \in others : i % 8 # fromFile THEN <<FileChars[fromFile + 1]>>
    ELSE IF \A i \in others : i \div 8 # fromRank THEN <<RankChars[(7 - fromRank) + 1]>>
    ELSE <<FileChars[fromFile + 1], RankChars[(7 - fromRank) + 1]>>

\* Board.getDisambiguation
boardDisambiguation(b, piece, fromRank, fromFile, toRank, toFile) ==
    LET isCapture == GetPiece(b, toRank, toFile) # Empty
        sameTypePieces ==
            {i \in 0..63 :
                /\ i # fromRank * 8 + fromFile
                /\ b.Squares[i] = piece
                /\ isValidMove(b, piece, i \div 8, i % 8, toRank, toFile, isCapture)}
    IN DisambiguationText(sameTypePieces, fromRank, fromFile)

uciToAlgebraic(b, uciMove) ==
    IF Len(uciMove) < 4 THEN uciMove
    ELSE
    LET fromSquare == SubSeq(uciMove, 1, 2)
        toSquare == SubSeq(uciMove, 3, 4)
        promo == IF Len(uciMove) = 5 THEN <<"=", ToUpperChar(uciMove[5])>> ELSE <<>>
        Notation(fromRank, fromFile, toRank, toFile) ==
           IF fromRank < 0 \/ fromFile < 0 \/ fromRank > 7 \/ fromFile > 7 THEN uciMove
           ELSE IF GetPiece(b, fromRank, fromFile) = Empty THEN uciMove
           ELSE IF GetPieceType(GetPiece(b, fromRank, fromFile)) = <<"P">>
                THEN IF toRank < 0 \/ toRank > 7 THEN uciMove
                     ELSE IF fromFile # toFile
                          THEN SubSeq(fromSquare, 1, 1) \o <<"x">> \o toSquare \o promo
                          ELSE toSquare \o promo
           ELSE IF toRank < 0 \/ toFile < 0 \/ toRank > 7 \/ toFile > 7 THEN uciMove
           ELSE GetPieceType(GetPiece(b, fromRank, fromFile))
                  \o boardDisambiguation(b, GetPiece(b, fromRank, fromFile),
                                         fromRank, fromFile, toRank, toFile)
                  \o (IF GetPiece(b, toRank, toFile) # Empty THEN <<"x">> ELSE <<>>)
                  \o toSquare
    IN IF uciMove = <<"e", "1", "g", "1">> \/ uciMove = <<"e", "8", "g", "8">> THEN KingSide
       ELSE IF uciMove = <<"e", "1", "c", "1">> \/ uciMove = <<"e", "8", "c", "8">> THEN QueenSide
       ELSE Notation(GetSquareCoords(fromSquare)[1], GetSquareCoords(fromSquare)[2],
                     GetSquareCoords(toSquare)[1], GetSquareCoords(toSquare)[2])

\* The piece a pawn of the given colour becomes for a promotion letter;
\* anything but Q, R, B, N gives the queen.
PromotedPiece(isWhitePiece, letter) ==
    CASE letter = <<"R">> -> IF isWhitePiece THEN WR ELSE BR
      [] letter = <<"B">> -> IF isWhitePiece THEN WB ELSE BB
      [] letter = <<"N">> -> IF isWhitePiece THEN WN ELSE BN
      [] OTHER -> IF isWhitePiece THEN WQ ELSE BQ

Ok(b) == [b |-> b, err |-> "nil"]

Fail(b, msg) == [b |-> b, err |-> msg]

\* The four castling returns of MakeUCIMove: move king and rook, give the
\* turn to the other side, record the position, append the notation.
UCICastle(b, castleType, isWhite) ==
    [RecordPosition([executeCastling(b, castleType, isWhite) EXCEPT !.WhiteToMove = ~isWhite])
        EXCEPT !.MovesPlayed = Append(@, castleType)]

\* MakeUCIMove's move of the piece onto the target square, made once as a
\* trial while in check and once to execute the move.
TryMove(b, fromRank, fromFile, toRank, toFile, piece) ==
    SetPiece(SetPiece(b, toRank, toFile, piece), fromRank, fromFile, Empty)

\* An undo that puts the piece back but leaves the target square as the
\* move made it.
UndoTryMoveLeavesTarget(b, fromRank, fromFile, toRank, toFile, piece, originalToPiece) ==
    SetPiece(b, fromRank, fromFile, piece)

\* MakeUCIMove's undo of that move: the piece back on its square, the target
\* square as it was.
UndoTryMove(b, fromRank, fromFile, toRank, toFile, piece, originalToPiece) ==
    SetPiece(SetPiece(b, fromRank, fromFile, piece), toRank, toFile, originalToPiece)

\* MakeUCIMove's promotion of a pawn that reached the last rank.
UCIPromote(b, piece, toRank, toFile, promotionPiece) ==
    IF (piece = WP /\ toRank = 0) \/ (piece = BP /\ toRank = 7)
    THEN SetPiece(b, toRank, toFile, PromotedPiece(piece = WP, promotionPiece))
    ELSE b

\* MakeUCIMove's removal of the pawn captured en passant.
UCICaptureEnPassant(b, piece, isCapture, toSquare, toRank, toFile) ==
    IF piece \in {WP, BP} /\ isCapture /\ b.EnPassant = toSquare
    THEN SetPiece(b, IF piece = WP THEN toRank + 1 ELSE toRank - 1, toFile, Empty)
    ELSE b

\* MakeUCIMove's en passant target: set after a double pawn push, else cleared.
UCISetEnPassant(b, piece, fromRank, toRank, toFile) ==
    IF piece \in {WP, BP} /\ abs(toRank - fromRank) = 2
    THEN [b EXCEPT !.EnPassant = GetSquareName((fromRank + toRank) \div 2, toFile)]
    ELSE [b EXCEPT !.EnPassant = <<>>]

\* An end of MakeUCIMove that also counts the move in FullMoveNumber.
UCIFinishCountsMove(b, algebraicMove) ==
    [RecordPosition([b EXCEPT !.WhiteToMove = ~@]) EXCEPT
        !.MovesPlayed = Append(@, algebraicMove), !.FullMoveNumber = @ + 1]

\* An end of MakeUCIMove that records the position and appends the move
\* without switching turns.
UCIFinishKeepsTurn(b, algebraicMove) ==
    [RecordPosition(b) EXCEPT !.MovesPlayed = Append(@, algebraicMove)]

\* MakeUCIMove's end: switch turns, record the position, append the move.
UCIFinish(b, algebraicMove) ==
    [RecordPosition([b EXCEPT !.WhiteToMove = ~@]) EXCEPT
        !.MovesPlayed = Append(@, algebraicMove)]

\* MakeUCIMove from the execution of the move on; checked is the board after
\* the in-check trial.
UCIExecute(checked, uciMove, fromSquare, toSquare, promotionPiece, fromRank, fromFile, toRank, toFile, piece, isCapture) ==
    LET Executed(moved) ==
          IF IsInCheck(moved, checked.WhiteToMove)
          THEN Fail(UndoTryMove(moved, fromRank, fromFile, toRank, toFile, piece,
                                GetPiece(checked, toRank, toFile)),
                    "move would put king in check")
          ELSE Ok(UCIFinish(
                    updateCastlingRights(
                      UCISetEnPassant(
                        UCICaptureEnPassant(
                          UCIPromote(moved, piece, toRank, toFile, promotionPiece),
                          piece, isCapture, toSquare, toRank, toFile),
                        piece, fromRank, toRank, toFile),
                      fromSquare, piece),
                    uciToAlgebraic(checked, uciMove)))
    IN Executed(TryMove(checked, fromRank, fromFile, toRank, toFile, piece))

\* MakeUCIMove's trial of the move while the mover is in check, undone before
\* the move is rejected or executed.
UCIRespondToCheck(b, uciMove, fromSquare, toSquare, promotionPiece, fromRank, fromFile, toRank, toFile, piece, target) ==
    LET Tried(wasInCheck, tried) ==
          IF wasInCheck /\ IsInCheck(tried, b.WhiteToMove)
          THEN Fail(UndoTryMove(tried, fromRank, fromFile, toRank, toFile, piece, target),
                    "must respond to check")
          ELSE UCIExecute(IF wasInCheck
                          THEN UndoTryMove(tried, fromRank, fromFile, toRank, toFile, piece,
                                           target)
                          ELSE b,
                          uciMove, fromSquare, toSquare, promotionPiece,
                          fromRank, fromFile, toRank, toFile, piece, target # Empty)
    IN Tried(IsInCheck(b, b.WhiteToMove),
             TryMove(b, fromRank, fromFile, toRank, toFile, piece))

\* MakeUCIMove once the squares are parsed.
UCIMoveFromTo(b, uciMove, fromSquare, toSquare, promotionPiece, fromRank, fromFile, toRank, toFile) ==
    LET Validated(piece, target) ==
          IF piece = Empty THEN Fail(b, "no piece on square")
          ELSE IF b.WhiteToMove # (piece < BP) THEN Fail(b, "not your piece to move")
          ELSE IF /\ piece \in {WK, BK} /\ b.WhiteToMove /\ fromSquare = <<"e", "1">>
                  /\ toSquare = <<"g", "1">> /\ canCastle(b, KingSide, TRUE)
          THEN Ok(UCICastle(b, KingSide, TRUE))
          ELSE IF /\ piece \in {WK, BK} /\ b.WhiteToMove /\ fromSquare = <<"e", "1">>
                  /\ toSquare = <<"c", "1">> /\ canCastle(b, QueenSide, TRUE)
          THEN Ok(UCICastle(b, QueenSide, TRUE))
          ELSE IF /\ piece \in {WK, BK} /\ ~b.WhiteToMove /\ fromSquare = <<"e", "8">>
                  /\ toSquare = <<"g", "8">> /\ canCastle(b, KingSide, FALSE)
          THEN Ok(UCICastle(b, KingSide, FALSE))
          ELSE IF /\ piece \in {WK, BK} /\ ~b.WhiteToMove /\ fromSquare = <<"e", "8">>
                  /\ toSquare = <<"c", "8">> /\ canCastle(b, QueenSide, FALSE)
          THEN Ok(UCICastle(b, QueenSide, FALSE))
          ELSE IF ~isValidMove(b, piece, fromRank, fromFile, toRank, toFile, target # Empty)
          THEN Fail(b, "illegal move for piece")
          ELSE IF target # Empty /\ (piece < BP) = (target < BP)
          THEN Fail(b, "cannot capture your own piece")
          ELSE UCIRespondToCheck(b, uciMove, fromSquare, toSquare, promotionPiece,
                                 fromRank, fromFile, toRank, toFile, piece, target)
    IN IF fromRank < 0 \/ fromRank > 7 \/ fromFile < 0 \/ fromFile > 7
       THEN Fail(b, "invalid from square")
       ELSE IF toRank < 0 \/ toRank > 7 \/ toFile < 0 \/ toFile > 7
       THEN Fail(b, "invalid to square")
       ELSE Validated(GetPiece(b, fromRank, fromFile), GetPiece(b, toRank, toFile))

MakeUCIMove(b, uciMove) ==
    IF Len(uciMove) < 4 \/ Len(uciMove) > 5 THEN Fail(b, "invalid UCI move format")
    ELSE UCIMoveFromTo(b, uciMove, SubSeq(uciMove, 1, 2), SubSeq(uciMove, 3, 4),
                       IF Len(uciMove) = 5 THEN <<ToUpperChar(uciMove[5])>> ELSE <<>>,
                       GetSquareCoords(SubSeq(uciMove, 1, 2))[1],
                       GetSquareCoords(SubSeq(uciMove, 1, 2))[2],
                       GetSquareCoords(SubSeq(uciMove, 3, 4))[1],
                       GetSquareCoords(SubSeq(uciMove, 3, 4))[2])

\* ------------------------------------------------------ algebraic notation
NoMove == [From |-> <<>>, To |-> <<>>, Piece |-> <<>>, Capture |-> FALSE,
           Promote |-> <<>>, Castle |-> <<>>, EnPassant |-> FALSE]

\* strings.TrimRight(s, "+#")
RECURSIVE TrimRightCheck(_)
TrimRightCheck(s) ==
    IF Len(s) > 0 /\ s[Len(s)] \in {"+", "#"}
    THEN TrimRightCheck(SubSeq(s, 1, Len(s) - 1)) ELSE s

IndexOf(s, c) == IF Contains(s, c)
                 THEN CHOOSE i \in 1..Len(s) : s[i] = c /\ \A j \in 1..(i - 1) : s[j] # c
                 ELSE 0

IsFileChar(c) == \E i \in 1..8 : FileChars[i] = c

IsRankChar(c) == \E i \in 1..8 : RankChars[i] = c

\* strings.Split(s, "=")[0]
FirstPart(s) == IF Contains(s, "=") THEN SubSeq(s, 1, IndexOf(s, "=") - 1) ELSE s

\* strings.Split(s, "=")[1], for s containing "="
SecondPart(s) == FirstPart(SubSeq(s, IndexOf(s, "=") + 1, Len(s)))

\* ParseAlgebraic's pawn branch, with the promotion suffix already split off.
ParsePawnMove(file, n, promotionPiece) ==
    [err |-> "nil",
     move |-> [(IF Len(n) = 2
                THEN [NoMove EXCEPT !.To = <<file, n[2]>>]
                ELSE IF Len(n) = 4 /\ n[2] = "x"
                THEN [NoMove EXCEPT !.Capture = TRUE, !.To = <<n[3], n[4]>>,
                                    !.From = <<file, "*">>]
                ELSE IF Len(n) >= 5 /\ n[2] = "x" /\ Len(promotionPiece) > 0
                THEN [NoMove EXCEPT !.Capture = TRUE, !.To = <<n[3], n[4]>>,
                                    !.From = <<file, "*">>]
                ELSE NoMove)
               EXCEPT !.Piece = <<"P">>, !.Promote = promotionPiece]]

\* ParseAlgebraic's piece branch from the capture mark on; idx is Go's index
\* after the disambiguation character.
ParsePieceTarget(n, idx, disambiguation) ==
    LET Target(capture, to) ==
          IF ~IsFileChar(to[1]) \/ ~IsRankChar(to[2])
          THEN [err |-> "invalid target square", move |-> NoMove]
          ELSE [err |-> "nil",
                move |-> [NoMove EXCEPT !.Piece = <<n[1]>>, !.Capture = capture,
                                        !.To = to, !.From = disambiguation]]
    IN IF idx < Len(n) /\ n[idx + 1] = "x"
       THEN IF idx + 2 < Len(n) THEN Target(TRUE, SubSeq(n, idx + 2, idx + 3))
            ELSE [err |-> "invalid move notation", move |-> NoMove]
       ELSE IF idx + 1 < Len(n) THEN Target(FALSE, SubSeq(n, idx + 1, idx + 2))
            ELSE [err |-> "invalid move notation", move |-> NoMove]

\* ParseAlgebraic's piece branch.
ParsePieceMove(n) ==
    IF /\ IsFileChar(n[2]) \/ IsRankChar(n[2])
       /\ \/ 2 < Len(n) /\ n[3] = "x"
          \/ /\ ~(2 < Len(n) /\ n[3] = "x")
             /\ 3 < Len(n)
             /\ \/ IsFileChar(n[3]) /\ 4 < Len(n)
                \/ ~(IsFileChar(n[3]) /\ 4 < Len(n)) /\ IsRankChar(n[3]) /\ 3 = Len(n) - 1
    THEN ParsePieceTarget(n, 2, <<n[2]>>)
    ELSE ParsePieceTarget(n, 1, <<>>)

\* ParseAlgebraic after strings.TrimRight(notation, "+#").
ParseTrimmed(n) ==
    IF Len(n) >= 2 /\ ~isUpperCase(n[1])
    THEN IF Contains(n, "=")
         THEN ParsePawnMove(n[1], FirstPart(n),
                            IF Len(SecondPart(n)) > 0 THEN <<SecondPart(n)[1]>> ELSE <<>>)
         ELSE IF Len(n) >= 3 /\ isUpperCase(n[Len(n)])
         THEN ParsePawnMove(n[1], SubSeq(n, 1, Len(n) - 1), <<n[Len(n)]>>)
         ELSE ParsePawnMove(n[1], n, <<>>)
    ELSE IF Len(n) >= 3 THEN ParsePieceMove(n)
    ELSE [err |-> "invalid move notation", move |-> NoMove]

\* moves.ParseAlgebraic: [err, move].  Go's notation[i] is n[i+1] here.
ParseAlgebraic(notation, isWhite) ==
    IF ToLower(notation) = <<"o", "-", "o">>
    THEN [err |-> "nil",
          move |-> [NoMove EXCEPT !.Castle = KingSide, !.Piece = <<"K">>,
                                  !.From = IF isWhite THEN <<"e", "1">> ELSE <<"e", "8">>,
                                  !.To = IF isWhite THEN <<"g", "1">> ELSE <<"g", "8">>]]
    ELSE IF ToLower(notation) = <<"o", "-", "o", "-", "o">>
    THEN [err |-> "nil",
          move |-> [NoMove EXCEPT !.Castle = QueenSide, !.Piece = <<"K">>,
                                  !.From = IF isWhite THEN <<"e", "1">> ELSE <<"e", "8">>,
                                  !.To = IF isWhite THEN <<"c", "1">> ELSE <<"c", "8">>]]
    ELSE ParseTrimmed(TrimRightCheck(notation))

\* FindPieceForMove for a pawn; fromFile is the file named in the move, or the
\* target file.
FindPawnForMove(b, move, targetRank, targetFile, fromFile, isWhite, expectedPiece) ==
    LET Push(oneBack, twoBack) ==
          IF /\ oneBack >= 0 /\ oneBack <= 7
             /\ GetPiece(b, oneBack, fromFile) = expectedPiece
             /\ canPawnMove(b, oneBack, fromFile, targetRank, targetFile, FALSE)
          THEN [from |-> GetSquareName(oneBack, fromFile), err |-> "nil"]
          ELSE IF /\ twoBack >= 0 /\ twoBack <= 7
                  /\ GetPiece(b, twoBack, fromFile) = expectedPiece
                  /\ canPawnMove(b, twoBack, fromFile, targetRank, targetFile, FALSE)
          THEN [from |-> GetSquareName(twoBack, fromFile), err |-> "nil"]
          ELSE [from |-> <<>>, err |-> "no valid pawn found for move"]
        Capture(fromRank) ==
          IF fromRank < 0 \/ fromRank > 7
          THEN [from |-> <<>>, err |-> "invalid source square"]
          ELSE IF /\ GetPiece(b, fromRank, fromFile) = expectedPiece
                  /\ canPawnMove(b, fromRank, fromFile, targetRank, targetFile, TRUE)
          THEN [from |-> GetSquareName(fromRank, fromFile), err |-> "nil"]
          ELSE [from |-> <<>>, err |-> "no valid pawn found for move"]
    IN IF fromFile < 0 \/ fromFile > 7 THEN [from |-> <<>>, err |-> "invalid file"]
       ELSE IF move.Capture
       THEN Capture(IF isWhite THEN targetRank + 1 ELSE targetRank - 1)
       ELSE Push(IF isWhite THEN targetRank + 1 ELSE targetRank - 1,
                 IF isWhite /\ targetRank = 4 THEN 6
                 ELSE IF ~isWhite /\ targetRank = 3 THEN 1
                 ELSE IF isWhite THEN targetRank + 1 ELSE targetRank - 1)

\* FindPieceForMove for a knight, bishop, rook, queen or king: the first
\* square in scanning order holding the piece that can make the move.
FindOfficerForMove(b, move, targetRank, targetFile, piece, targetPiece) ==
    LET First(candidates) ==
          IF candidates = {} THEN [from |-> <<>>, err |-> "no piece found that could move"]
          ELSE [from |-> GetSquareName((CHOOSE i \in candidates : \A j \in candidates : i <= j) \div 8,
                                       (CHOOSE i \in candidates : \A j \in candidates : i <= j) % 8),
                err |-> "nil"]
    IN First({i \in 0..63 :
                /\ b.Squares[i] = piece
                /\ isValidMove(b, piece, i \div 8, i % 8, targetRank, targetFile, move.Capture)
                /\ IF targetPiece # Empty
                   THEN (targetPiece >= BP) # (piece >= BP) /\ move.Capture
                   ELSE ~move.Capture})

\* FindPieceForMove once the target square is parsed.
FindPieceAt(b, move, targetRank, targetFile, isWhite) ==
    IF targetRank < 0 \/ targetRank > 7 \/ targetFile < 0 \/ targetFile > 7
    THEN [from |-> <<>>, err |-> "invalid target square"]
    ELSE IF move.Castle # <<>> THEN [from |-> move.From, err |-> "nil"]
    ELSE IF move.Piece = <<"P">>
    THEN FindPawnForMove(b, move, targetRank, targetFile,
                         IF Len(move.From) > 0 THEN FileOf(move.From[1]) ELSE targetFile,
                         isWhite, IF isWhite THEN WP ELSE BP)
    ELSE IF move.Piece \notin {<<"N">>, <<"B">>, <<"R">>, <<"Q">>, <<"K">>}
    THEN [from |-> <<>>, err |-> "invalid piece type"]
    ELSE FindOfficerForMove(b, move, targetRank, targetFile,
                            CASE move.Piece = <<"N">> -> IF isWhite THEN WN ELSE BN
                              [] move.Piece = <<"B">> -> IF isWhite THEN WB ELSE BB
                              [] move.Piece = <<"R">> -> IF isWhite THEN WR ELSE BR
                              [] move.Piece = <<"Q">> -> IF isWhite THEN WQ ELSE BQ
                              [] OTHER -> IF isWhite THEN WK ELSE BK,
                            GetPiece(b, targetRank, targetFile))

\* Board.FindPieceForMove: [from, err]
FindPieceForMove(b, move) ==
    IF Len(move.To) # 2 THEN [from |-> <<>>, err |-> "invalid target square"]
    ELSE FindPieceAt(b, move, GetSquareCoords(move.To)[1], GetSquareCoords(move.To)[2],
                     b.WhiteToMove)

\* Board.IsCheckmate: in check, and no move that obeys the piece's movement
\* rule onto a square not held by an own piece leaves the king unattacked.
IsCheckmate(b, isWhite) ==
    /\ IsInCheck(b, isWhite)
    /\ \A i \in 0..63 :
         LET piece == b.Squares[i]
         IN (piece # Empty /\ (piece < BP) = isWhite) =>
            \A j \in 0..63 :
               LET targetPiece == b.Squares[j]
               IN (/\ i # j
                   /\ isValidMove(b, piece, i \div 8, i % 8, j \div 8, j % 8, targetPiece # Empty)
                   /\ ~(targetPiece # Empty /\ (targetPiece < BP) = isWhite))
                  => IsInCheck([b EXCEPT !.Squares = [@ EXCEPT ![j] = piece, ![i] = Empty]], isWhite)

\* Board.IsDraw: threefold repetition, or the side to move is not in check
\* and no relocation of one of its pieces to any other square not held by an
\* own piece leaves its king unattacked.  The trial moves are undone before
\* the function returns.
IsDraw(b) ==
    \/ IsThreefoldRepetition(b)
    \/ /\ ~IsInCheck(b, b.WhiteToMove)
       /\ ~\E i \in 0..63 :
             LET piece == b.Squares[i]
             IN /\ piece # Empty
                /\ (piece < BP) = b.WhiteToMove
                /\ \E j \in 0..63 :
                      /\ i # j
                      /\ ~(b.Squares[j] # Empty /\ (b.Squares[j] < BP) = b.WhiteToMove)
                      /\ ~IsInCheck([b EXCEPT !.Squares = [@ EXCEPT ![j] = piece, ![i] = Empty]],
                                    b.WhiteToMove)

\* MakeMove's undo of the trial move made while in check.
MoveUndoTrial(b, fromSquare, toSquare, oldFromPiece, oldToPiece) ==
    [b EXCEPT !.Squares = [@ EXCEPT ![fromSquare] = oldFromPiece, ![toSquare] = oldToPiece]]

\* MakeMove's removal of the pawn captured en passant.
MoveCaptureEnPassant(b, isEnPassantCapture, whiteToMove, endRank, endFile) ==
    IF /\ isEnPassantCapture
       /\ GetSquareByCoords(IF whiteToMove THEN endRank + 1 ELSE endRank - 1, endFile) >= 0
    THEN [b EXCEPT !.Squares =
             [@ EXCEPT ![GetSquareByCoords(IF whiteToMove THEN endRank + 1 ELSE endRank - 1,
                                           endFile)] = Empty]]
    ELSE b

\* MakeMove's en passant target after a double pawn push.
MoveSetEnPassant(b, move, startRank, endRank, endFile) ==
    IF move.Piece = <<"P">> /\ abs(endRank - startRank) = 2
    THEN [b EXCEPT !.EnPassant = GetSquareName((startRank + endRank) \div 2, endFile)]
    ELSE b

\* MakeMove's promotion piece: the one asked for, the queen by default.
MovePromotionPiece(move) ==
    IF move.Promote \in {<<"Q">>, <<"R">>, <<"B">>, <<"N">>} THEN move.Promote ELSE <<"Q">>

\* MakeMove's promotion of a pawn that reached the last rank.
MovePromote(b, move, toSquare, endRank) ==
    IF (b.Squares[toSquare] = WP /\ endRank = 0) \/ (b.Squares[toSquare] = BP /\ endRank = 7)
    THEN [b EXCEPT !.Squares =
             [@ EXCEPT ![toSquare] = PromotedPiece(b.Squares[toSquare] = WP,
                                                   MovePromotionPiece(move))]]
    ELSE b

\* MakeMove's end: switch turns, record the position, append the notation
\* with its check or checkmate mark.
MoveFinish(b, notation) ==
    LET Noted(recorded) ==
          [recorded EXCEPT !.MovesPlayed = Append(@,
              IF IsInCheck(recorded, recorded.WhiteToMove)
                 /\ ~Contains(notation, "+") /\ ~Contains(notation, "#")
              THEN IF IsCheckmate(recorded, recorded.WhiteToMove)
                   THEN notation \o <<"#">> ELSE notation \o <<"+">>
              ELSE notation)]
    IN Noted(RecordPosition([b EXCEPT !.WhiteToMove = ~@]))

\* MakeMove from the movement rule on.
MoveValidate(b, notation, move, fromSquare, toSquare, piece, startRank, startFile, endRank, endFile) ==
    IF ~(IF piece \in {WK, BK} /\ move.Castle # <<>>
         THEN canCastle(b, move.Castle, b.WhiteToMove)
         ELSE isValidMove(b, piece, startRank, startFile, endRank, endFile, move.Capture))
    THEN Fail(b, "illegal move")
    ELSE IF move.Castle # <<>>
    THEN Ok(MoveFinish(
              executeCastling(
                updateCastlingRights([b EXCEPT !.EnPassant = <<>>], move.From, piece),
                move.Castle, b.WhiteToMove),
              notation))
    ELSE Ok(MoveFinish(
              MovePromote(
                MoveSetEnPassant(
                  MoveCaptureEnPassant(
                    TryMove(updateCastlingRights([b EXCEPT !.EnPassant = <<>>], move.From, piece),
                            startRank, startFile, endRank, endFile, piece),
                    move.EnPassant
                      \/ (move.Piece = <<"P">> /\ move.Capture /\ b.Squares[toSquare] = Empty),
                    b.WhiteToMove, endRank, endFile),
                  move, startRank, endRank, endFile),
                move, toSquare, endRank),
              IF /\ (piece = WP /\ endRank = 0) \/ (piece = BP /\ endRank = 7)
                 /\ ~Contains(notation, "=")
              THEN notation \o <<"=">> \o MovePromotionPiece(move)
              ELSE notation))

\* MakeMove's trial of the move while the mover is in check, undone before
\* the move is rejected or validated.
MoveRespondToCheck(b, notation, move, fromSquare, toSquare, piece, startRank, startFile, endRank, endFile) ==
    LET Tried(wasInCheck, trial) ==
          IF wasInCheck /\ IsInCheck(trial, b.WhiteToMove)
          THEN Fail(MoveUndoTrial(trial, fromSquare, toSquare, piece, b.Squares[toSquare]),
                    "must respond to check")
          ELSE MoveValidate(IF wasInCheck
                            THEN MoveUndoTrial(trial, fromSquare, toSquare, piece,
                                               b.Squares[toSquare])
                            ELSE b,
                            notation, move, fromSquare, toSquare, piece,
                            startRank, startFile, endRank, endFile)
    IN Tried(IsInCheck(b, b.WhiteToMove),
             [b EXCEPT !.Squares = [@ EXCEPT ![toSquare] = piece, ![fromSquare] = Empty]])

\* MakeMove once the origin square is known.
MoveFromTo(b, notation, move) ==
    LET Squares(fromSquare, toSquare) ==
          IF fromSquare < 0 \/ toSquare < 0 THEN Fail(b, "invalid square")
          ELSE IF b.Squares[fromSquare] = Empty THEN Fail(b, "invalid piece")
          ELSE IF b.WhiteToMove # (b.Squares[fromSquare] < BP)
          THEN Fail(b, "wrong player's piece")
          ELSE MoveRespondToCheck(b, notation, move, fromSquare, toSquare,
                                  b.Squares[fromSquare],
                                  GetSquareCoords(move.From)[1], GetSquareCoords(move.From)[2],
                                  GetSquareCoords(move.To)[1], GetSquareCoords(move.To)[2])
    IN Squares(GetSquare(b, move.From), GetSquare(b, move.To))

\* MakeMove once the notation is parsed.
MoveParsed(b, notation, move) ==
    LET Found(needFind, found) ==
          IF needFind /\ found.err # "nil" THEN Fail(b, found.err)
          ELSE MoveFromTo(b, notation,
                          IF needFind THEN [move EXCEPT !.From = found.from] ELSE move)
    IN Found(move.From = <<>> \/ Contains(move.From, "*"), FindPieceForMove(b, move))

\* Board.MakeMove (algebraic notation)
MakeMove(b, notation) ==
    LET Parsed(parsed) ==
          IF parsed.err # "nil" THEN Fail(b, parsed.err)
          ELSE MoveParsed(b, notation, parsed.move)
    IN Parsed(ParseAlgebraic(notation, b.WhiteToMove))

\* ------------------------------------------------------------ engine moves
\* Coordinates read straight from a square name, as makeMove,
\* ExecuteEngineMove and getDisambiguation do: 7-(name[1]-'1'), name[0]-'a'.
NameRank(name) == 7 - DigitOf(name[2])

NameFile(name) == FileOf(name[1])

\* engine.getDisambiguation, called by ExecuteEngineMove after the piece
\* has left its origin square.
getDisambiguation(b, move) ==
    LET Among(fromRank, fromFile, toRank, toFile, movedPiece, targetPiece) ==
          DisambiguationText(
            {i \in 0..63 :
                /\ i # fromRank * 8 + fromFile
                /\ b.Squares[i] = movedPiece
                /\ CASE move.Piece = <<"N">> -> canKnightMove(i \div 8, i % 8, toRank, toFile)
                     [] move.Piece = <<"B">> -> canBishopMove(b, i \div 8, i % 8, toRank, toFile)
                     [] move.Piece = <<"R">> -> canRookMove(b, i \div 8, i % 8, toRank, toFile)
                     [] OTHER -> FALSE
                /\ (targetPiece = Empty \/ (targetPiece < BP) # (movedPiece < BP))},
            fromRank, fromFile)
    IN IF move.Piece \in {<<"P">>, <<"Q">>, <<"K">>} THEN <<>>
       ELSE Among(NameRank(move.From), NameFile(move.From),
                  NameRank(move.To), NameFile(move.To),
                  GetPiece(b, NameRank(move.From), NameFile(move.From)),
                  GetPiece(b, NameRank(move.To), NameFile(move.To)))

\* The square of the pawn an en passant capture removes, as ExecuteEngineMove
\* and makeMove compute it; -1 when off the board.
CapturedPawnSquare(move, movedPiece) ==
    GetSquareByCoords(IF movedPiece = WP THEN NameRank(move.To) + 1
                      ELSE NameRank(move.To) - 1, NameFile(move.To))

\* ExecuteEngineMove's removal of the pawn captured en passant.
EngineCaptureEnPassant(b, move, movedPiece) ==
    IF move.EnPassant /\ CapturedPawnSquare(move, movedPiece) >= 0
    THEN [b EXCEPT !.Squares = [@ EXCEPT ![CapturedPawnSquare(move, movedPiece)] = Empty]]
    ELSE b

\* ExecuteEngineMove's promotion.
EnginePromote(b, move, toSquare, movedPiece) ==
    IF move.Promote # <<>>
    THEN [b EXCEPT !.Squares = [@ EXCEPT ![toSquare] =
                                   PromotedPiece(movedPiece = WP, move.Promote)]]
    ELSE b

\* ExecuteEngineMove's notation, built after the turn has switched.
EngineNotation(b, move, capturedPiece) ==
    (IF move.Piece # <<"P">> THEN move.Piece \o getDisambiguation(b, move) ELSE <<>>)
    \o (IF capturedPiece # Empty
        THEN IF move.Piece = <<"P">> THEN <<move.From[1], "x">> ELSE <<"x">>
        ELSE <<>>)
    \o move.To
    \o (IF move.Promote # <<>> THEN <<"=">> \o move.Promote ELSE <<>>)
    \o (IF IsInCheck(b, b.WhiteToMove)
        THEN IF IsCheckmate(b, b.WhiteToMove) THEN <<"#">> ELSE <<"+">>
        ELSE <<>>)

\* ExecuteEngineMove's end: switch turns, append the notation.
EngineFinish(b, move, capturedPiece) ==
    LET Noted(switched) ==
          [switched EXCEPT !.MovesPlayed = Append(@, EngineNotation(switched, move, capturedPiece))]
    IN Noted([b EXCEPT !.WhiteToMove = ~@])

\* engine.ExecuteEngineMove
ExecuteEngineMove(b, move) ==
    LET Moved(fromSquare, toSquare, movedPiece, moved) ==
          Ok(EngineFinish(
               EnginePromote(EngineCaptureEnPassant(moved, move, movedPiece),
                             move, toSquare, movedPiece),
               move,
               IF move.EnPassant /\ CapturedPawnSquare(move, movedPiece) >= 0
               THEN moved.Squares[CapturedPawnSquare(move, movedPiece)]
               ELSE b.Squares[toSquare]))
        Executed(fromSquare, toSquare) ==
          IF fromSquare < 0 \/ toSquare < 0 THEN Fail(b, "invalid square")
          ELSE IF b.Squares[fromSquare] = Empty THEN Fail(b, "no piece at")
          ELSE IF (b.Squares[fromSquare] < BP) # b.WhiteToMove
          THEN Fail(b, "wrong color piece at")
          ELSE Moved(fromSquare, toSquare, b.Squares[fromSquare],
                     [b EXCEPT !.Squares = [@ EXCEPT ![toSquare] = b.Squares[fromSquare],
                                                     ![fromSquare] = Empty]])
    IN Executed(GetSquare(b, move.From), GetSquare(b, move.To))

\* -------------------------------------------------------- move generation
Mv(from, to, piece, capture, promote, enPassant) ==
    [From |-> from, To |-> to, Piece |-> <<piece>>, Capture |-> capture,
     Promote |-> promote, Castle |-> <<>>, EnPassant |-> enPassant]

PromotionPieces == <<"Q", "R", "B", "N">>

\* A capture test that lets a piece take any piece, its own side's too.
CanCaptureAnything(isWhite, targetPiece) == targetPiece # Empty

CanCapture(isWhite, targetPiece) ==
    (isWhite /\ targetPiece >= BP) \/ (~isWhite /\ targetPiece < BP)

\* The pawn's pushes, in the order they are appended.
PawnPushes(b, fromRank, fromFile, isWhite) ==
    LET direction == IF isWhite THEN 0 - 1 ELSE 1
        newRank == fromRank + direction
        from == GetSquareName(fromRank, fromFile)
    IN IF newRank >= 0 /\ newRank < 8 /\ IsSquareEmpty(b, newRank, fromFile)
       THEN (IF (isWhite /\ newRank = 0) \/ (~isWhite /\ newRank = 7)
             THEN [k \in 1..4 |-> Mv(from, GetSquareName(newRank, fromFile), "P", FALSE,
                                     <<PromotionPieces[k]>>, FALSE)]
             ELSE <<Mv(from, GetSquareName(newRank, fromFile), "P", FALSE, <<>>, FALSE)>>)
            \o (IF /\ (isWhite /\ fromRank = 6) \/ (~isWhite /\ fromRank = 1)
                   /\ IsSquareEmpty(b, fromRank + 2 * direction, fromFile)
                   /\ IsSquareEmpty(b, fromRank + direction, fromFile)
                THEN <<Mv(from, GetSquareName(fromRank + 2 * direction, fromFile), "P",
                          FALSE, <<>>, FALSE)>>
                ELSE <<>>)
       ELSE <<>>

\* The pawn's captures towards one side: the regular capture (expanded into
\* the four promotions on the last rank), then the en-passant capture.
PawnCaptures(b, fromRank, fromFile, isWhite, fileOffset) ==
    LET direction == IF isWhite THEN 0 - 1 ELSE 1
        newRank == fromRank + direction
        newFile == fromFile + fileOffset
        from == GetSquareName(fromRank, fromFile)
    IN IF newFile >= 0 /\ newFile < 8 /\ newRank >= 0 /\ newRank < 8
       THEN LET targetPiece == GetPiece(b, newRank, newFile)
                to == GetSquareName(newRank, newFile)
            IN (IF targetPiece # Empty /\ CanCapture(isWhite, targetPiece)
                THEN IF (isWhite /\ newRank = 0) \/ (~isWhite /\ newRank = 7)
                     THEN [k \in 1..4 |-> Mv(from, to, "P", TRUE, <<PromotionPieces[k]>>, FALSE)]
                     ELSE <<Mv(from, to, "P", TRUE, <<>>, FALSE)>>
                ELSE <<>>)
               \o (IF b.EnPassant # <<>> /\ b.EnPassant = to
                   THEN <<Mv(from, to, "P", TRUE, <<>>, TRUE)>>
                   ELSE <<>>)
       ELSE <<>>

\* One-step moves (knight, king) in the order of the offsets.
RECURSIVE StepMoves(_, _, _, _, _, _, _)
StepMoves(b, fromRank, fromFile, isWhite, letter, offsets, k) ==
    IF k > Len(offsets) THEN <<>>
    ELSE LET newRank == fromRank + offsets[k][1]
             newFile == fromFile + offsets[k][2]
             tail == StepMoves(b, fromRank, fromFile, isWhite, letter, offsets, k + 1)
         IN IF InRange(newRank, newFile)
            THEN LET targetPiece == GetPiece(b, newRank, newFile)
                 IN IF targetPiece = Empty \/ CanCapture(isWhite, targetPiece)
                    THEN <<Mv(GetSquareName(fromRank, fromFile), GetSquareName(newRank, newFile),
                              letter, targetPiece # Empty, <<>>, FALSE)>> \o tail
                    ELSE tail
            ELSE tail

\* Sliding moves along one direction from distance on, up to the first
\* occupied square.
RECURSIVE SlideMoves(_, _, _, _, _, _, _)
SlideMoves(b, fromRank, fromFile, isWhite, letter, dir, distance) ==
    LET newRank == fromRank + dir[1] * distance
        newFile == fromFile + dir[2] * distance
    IN IF distance >= 8 \/ ~InRange(newRank, newFile) THEN <<>>
       ELSE LET targetPiece == GetPiece(b, newRank, newFile)
                from == GetSquareName(fromRank, fromFile)
                to == GetSquareName(newRank, newFile)
            IN IF targetPiece # Empty
               THEN IF CanCapture(isWhite, targetPiece)
                    THEN <<Mv(from, to, letter, TRUE, <<>>, FALSE)>>
                    ELSE <<>>
               ELSE <<Mv(from, to, letter, FALSE, <<>>, FALSE)>>
                    \o SlideMoves(b, fromRank, fromFile, isWhite, letter, dir, distance + 1)

RECURSIVE RayMoves(_, _, _, _, _, _, _)
RayMoves(b, fromRank, fromFile, isWhite, letter, dirs, k) ==
    IF k > Len(dirs) THEN <<>>
    ELSE SlideMoves(b, fromRank, fromFile, isWhite, letter, dirs[k], 1)
         \o RayMoves(b, fromRank, fromFile, isWhite, letter, dirs, k + 1)

AllDirs == <<<<0 - 1, 0 - 1>>, <<0 - 1, 0>>, <<0 - 1, 1>>, <<0, 0 - 1>>,
             <<0, 1>>, <<1, 0 - 1>>, <<1, 0>>, <<1, 1>>>>

\* The pseudo-legal moves of the piece on one square.
SquareMoves(b, fromRank, fromFile) ==
    LET piece == GetPiece(b, fromRank, fromFile)
        isWhite == piece < BP
    IN IF piece = Empty \/ isWhite # b.WhiteToMove THEN <<>>
       ELSE CASE piece \in {WP, BP} ->
                   PawnPushes(b, fromRank, fromFile, isWhite)
                   \o PawnCaptures(b, fromRank, fromFile, isWhite, 0 - 1)
                   \o PawnCaptures(b, fromRank, fromFile, isWhite, 1)
              [] piece \in {WN, BN} ->
                   StepMoves(b, fromRank, fromFile, isWhite, "N", KnightOffsets, 1)
              [] piece \in {WB, BB} ->
                   RayMoves(b, fromRank, fromFile, isWhite, "B", DiagonalDirs, 1)
              [] piece \in {WR, BR} ->
                   RayMoves(b, fromRank, fromFile, isWhite, "R", StraightDirs, 1)
              [] piece \in {WQ, BQ} ->
                   RayMoves(b, fromRank, fromFile, isWhite, "Q", AllDirs, 1)
              [] OTHER ->
                   StepMoves(b, fromRank, fromFile, isWhite, "K", AllDirs, 1)

\* The pseudo-legal moves of the squares lo..hi, in scanning order.
RECURSIVE PseudoMoves(_, _, _)
PseudoMoves(b, lo, hi) ==
    IF lo = hi THEN SquareMoves(b, lo \div 8, lo % 8)
    ELSE PseudoMoves(b, lo, (lo + hi) \div 2) \o PseudoMoves(b, (lo + hi) \div 2 + 1, hi)

\* engine.isLegalMove: [legal, b], b being the board the function leaves
\* behind.  The trial en-passant capture empties the square behind the
\* target and afterwards puts an opposing pawn there, whatever stood on it.
isLegalMove(b, move) ==
    LET Undone(u, fromSquare, toSquare, enPassantSquare) ==
          IF move.EnPassant /\ enPassantSquare >= 0
          THEN [u EXCEPT !.Squares = [@ EXCEPT ![fromSquare] = b.Squares[fromSquare],
                                               ![toSquare] = b.Squares[toSquare],
                                               ![enPassantSquare] =
                                                   IF b.Squares[fromSquare] < BP THEN BP ELSE WP]]
          ELSE [u EXCEPT !.Squares = [@ EXCEPT ![fromSquare] = b.Squares[fromSquare],
                                               ![toSquare] = b.Squares[toSquare]]]
        Moved(t, fromSquare, toSquare) ==
          [t EXCEPT !.Squares = [@ EXCEPT ![toSquare] = t.Squares[fromSquare],
                                          ![fromSquare] = Empty]]
        Tried(t, fromSquare, toSquare, enPassantSquare) ==
          [legal |-> ~IsInCheck(t, b.Squares[fromSquare] < BP),
           b |-> Undone(t, fromSquare, toSquare, enPassantSquare)]
        Trial(fromSquare, toSquare, enPassantSquare) ==
          Tried(Moved(IF enPassantSquare >= 0
                      THEN [b EXCEPT !.Squares = [@ EXCEPT ![enPassantSquare] = Empty]]
                      ELSE b, fromSquare, toSquare),
                fromSquare, toSquare, enPassantSquare)
        Squares(fromSquare, toSquare) ==
          IF fromSquare < 0 \/ toSquare < 0 THEN [legal |-> FALSE, b |-> b]
          ELSE Trial(fromSquare, toSquare,
                     IF move.EnPassant
                     THEN GetSquareByCoords(IF b.Squares[fromSquare] < BP
                                            THEN NameRank(move.To) + 1
                                            ELSE NameRank(move.To) - 1, NameFile(move.To))
                     ELSE 0 - 1)
    IN Squares(GetSquare(b, move.From), GetSquare(b, move.To))

\* The filter loop of GenerateMoves over moveList[lo..hi], in order, each
\* call of isLegalMove on the board left by the calls before.
RECURSIVE FilterLegal(_, _, _, _)
FilterLegal(b, moveList, lo, hi) ==
    LET One(r) == [moves |-> IF r.legal THEN <<moveList[lo]>> ELSE <<>>, b |-> r.b]
        Join(first, rest) == [moves |-> first.moves \o rest.moves, b |-> rest.b]
        Then(first) == Join(first, FilterLegal(first.b, moveList, (lo + hi) \div 2 + 1, hi))
    IN IF lo > hi THEN [moves |-> <<>>, b |-> b]
       ELSE IF lo = hi THEN One(isLegalMove(b, moveList[lo]))
       ELSE Then(FilterLegal(b, moveList, lo, (lo + hi) \div 2))

\* A generator that hands out its moves last square first.
GenerateMovesBackwards(b) ==
    LET Reversed(r) ==
          [moves |-> [k \in 1..Len(r.moves) |-> r.moves[Len(r.moves) - k + 1]], b |-> r.b]
        Filtered(moveList) == Reversed(FilterLegal(b, moveList, 1, Len(moveList)))
    IN Filtered(PseudoMoves(b, 0, 63))

\* engine.GenerateMoves: [moves, b]
GenerateMoves(b) ==
    LET Filtered(moveList) == FilterLegal(b, moveList, 1, Len(moveList))
    IN Filtered(PseudoMoves(b, 0, 63))

\* ------------------------------------------------------ search apply/undo
NoUndo == [ok |-> FALSE, capturedPiece |-> Empty, wasWhiteToMove |-> FALSE,
           oldEnPassant |-> <<>>, enPassantSquare |-> 0 - 1, oldCastlingRights |-> 0,
           positionHash |-> <<>>, positionCount |-> 0]

\* engine.makeMove: [b, undoInfo]; undoInfo.ok is FALSE for the nil result.
\* enPassantSquare is the index of the square the captured pawn was taken
\* from, -1 for the nil pointer.
makeMove(b, move) ==
    LET Moved(t, fromSquare, toSquare) ==
          [t EXCEPT !.Squares = [@ EXCEPT ![toSquare] = t.Squares[fromSquare],
                                          ![fromSquare] = Empty]]
        Pushed(t) ==
          IF /\ move.Piece = <<"P">>
             /\ abs(NameRank(move.To) - NameRank(move.From)) = 2
          THEN [t EXCEPT !.EnPassant =
                    GetSquareName((NameRank(move.From) + NameRank(move.To)) \div 2,
                                  NameFile(move.To))]
          ELSE t
        Made(fromSquare, toSquare, piece, capturedPawnSquare, positionHash, cleared) ==
          [b |-> RecordPosition(
                   [Pushed(Moved(IF capturedPawnSquare >= 0
                                 THEN [cleared EXCEPT !.Squares =
                                          [@ EXCEPT ![capturedPawnSquare] = Empty]]
                                 ELSE cleared, fromSquare, toSquare))
                      EXCEPT !.WhiteToMove = ~@]),
           undoInfo |-> [ok |-> TRUE,
                         capturedPiece |-> IF capturedPawnSquare >= 0
                                           THEN b.Squares[capturedPawnSquare]
                                           ELSE b.Squares[toSquare],
                         wasWhiteToMove |-> b.WhiteToMove,
                         oldEnPassant |-> b.EnPassant,
                         enPassantSquare |-> capturedPawnSquare,
                         oldCastlingRights |-> b.CastlingRights,
                         positionHash |-> positionHash,
                         positionCount |-> HistoryGet(b.PositionHistory, positionHash)]]
        Squares(fromSquare, toSquare) ==
          IF fromSquare < 0 \/ toSquare < 0 THEN [b |-> b, undoInfo |-> NoUndo]
          ELSE IF b.Squares[fromSquare] = Empty THEN [b |-> b, undoInfo |-> NoUndo]
          ELSE Made(fromSquare, toSquare, b.Squares[fromSquare],
                    IF move.EnPassant
                    THEN CapturedPawnSquare(move, b.Squares[fromSquare]) ELSE 0 - 1,
                    GetPositionHash(b),
                    updateCastlingRights([b EXCEPT !.EnPassant = <<>>], move.From,
                                         b.Squares[fromSquare]))
    IN Squares(GetSquare(b, move.From), GetSquare(b, move.To))

\* engine.undoMove
undoMove(b, move, undoInfo) ==
    LET Forgotten(history, currentHash) ==
          IF currentHash \in DOMAIN history /\ HistoryGet(history, currentHash) > 0
          THEN IF HistoryGet(history, currentHash) = 1
               THEN HistoryDelete(history, currentHash)
               ELSE HistoryPut(history, currentHash, HistoryGet(history, currentHash) - 1)
          ELSE history
        Restored(history) ==
          IF undoInfo.positionCount > 0
          THEN HistoryPut(history, undoInfo.positionHash, undoInfo.positionCount)
          ELSE HistoryDelete(history, undoInfo.positionHash)
        Back(squares, fromSquare, toSquare) ==
          IF move.EnPassant /\ undoInfo.enPassantSquare >= 0
          THEN [[squares EXCEPT ![fromSquare] = squares[toSquare],
                                ![toSquare] = undoInfo.capturedPiece]
                   EXCEPT ![undoInfo.enPassantSquare] = undoInfo.capturedPiece,
                          ![toSquare] = Empty]
          ELSE [squares EXCEPT ![fromSquare] = squares[toSquare],
                               ![toSquare] = undoInfo.capturedPiece]
        Squares(fromSquare, toSquare) ==
          IF fromSquare < 0 \/ toSquare < 0 \/ ~undoInfo.ok THEN b
          ELSE [b EXCEPT !.Squares = Back(b.Squares, fromSquare, toSquare),
                         !.EnPassant = undoInfo.oldEnPassant,
                         !.CastlingRights = undoInfo.oldCastlingRights,
                         !.WhiteToMove = undoInfo.wasWhiteToMove,
                         !.PositionHistory =
                             Restored(Forgotten(b.PositionHistory, GetPositionHash(b)))]
    IN Squares(GetSquare(b, move.From), GetSquare(b, move.To))

\* -------------------------------------------------------------- evaluation
PawnValue == 100
KnightValue == 320
BishopValue == 330
RookValue == 500
QueenValue == 900
KingValue == 20000

pawnTable ==
    <<0, 0, 0, 0, 0, 0, 0, 0,
      50, 50, 50, 50, 50, 50, 50, 50,
      10, 10, 20, 30, 30, 20, 10, 10,
      5, 5, 10, 25, 25, 10, 5, 5,
      0, 0, 0, 20, 20, 0, 0, 0,
      5, 0 - 5, 0 - 10, 0, 0, 0 - 10, 0 - 5, 5,
      5, 10, 10, 0 - 20, 0 - 20, 10, 10, 5,
      0, 0, 0, 0, 0, 0, 0, 0>>

knightTable ==
    <<0 - 50, 0 - 40, 0 - 30, 0 - 30, 0 - 30, 0 - 30, 0 - 40, 0 - 50,
      0 - 40, 0 - 20, 0, 0, 0, 0, 0 - 20, 0 - 40,
      0 - 30, 0, 10, 15, 15, 10, 0, 0 - 30,
      0 - 30, 5, 15, 20, 20, 15, 5, 0 - 30,
      0 - 30, 0, 15, 20, 20, 15, 0, 0 - 30,
      0 - 30, 5, 10, 15, 15, 10, 5, 0 - 30,
      0 - 40, 0 - 20, 0, 5, 5, 0, 0 - 20, 0 - 40,
      0 - 50, 0 - 40, 0 - 30, 0 - 30, 0 - 30, 0 - 30, 0 - 40, 0 - 50>>

bishopTable ==
    <<0 - 20, 0 - 10, 0 - 10, 0 - 10, 0 - 10, 0 - 10, 0 - 10, 0 - 20,
      0 - 10, 0, 0, 0, 0, 0, 0, 0 - 10,
      0 - 10, 0, 5, 10, 10, 5, 0, 0 - 10,
      0 - 10, 5, 5, 10, 10, 5, 5, 0 - 10,
      0 - 10, 0, 10, 10, 10, 10, 0, 0 - 10,
      0 - 10, 10, 10, 10, 10, 10, 10, 0 - 10,
      0 - 10, 5, 0, 0, 0, 0, 5, 0 - 10,
      0 - 20, 0 - 10, 0 - 10, 0 - 10, 0 - 10, 0 - 10, 0 - 10, 0 - 20>>

rookTable ==
    <<0, 0, 0, 0, 0, 0, 0, 0,
      5, 10, 10, 10, 10, 10, 10, 5,
      0 - 5, 0, 0, 0, 0, 0, 0, 0 - 5,
      0 - 5, 0, 0, 0, 0, 0, 0, 0 - 5,
      0 - 5, 0, 0, 0, 0, 0, 0, 0 - 5,
      0 - 5, 0, 0, 0, 0, 0, 0, 0 - 5,
      0 - 5, 0, 0, 0, 0, 0, 0, 0 - 5,
      0, 0, 0, 5, 5, 0, 0, 0>>

queenTable ==
    <<0 - 20, 0 - 10, 0 - 10, 0 - 5, 0 - 5, 0 - 10, 0 - 10, 0 - 20,
      0 - 10, 0, 0, 0, 0, 0, 0, 0 - 10,
      0 - 10, 0, 5, 5, 5, 5, 0, 0 - 10,
      0 - 5, 0, 5, 5, 5, 5, 0, 0 - 5,
      0, 0, 5, 5, 5, 5, 0, 0 - 5,
      0 - 10, 5, 5, 5, 5, 5, 0, 0 - 10,
      0 - 10, 0, 5, 0, 0, 0, 0, 0 - 10,
      0 - 20, 0 - 10, 0 - 10, 0 - 5, 0 - 5, 0 - 10, 0 - 10, 0 - 20>>

kingMiddleTable ==
    <<0 - 30, 0 - 40, 0 - 40, 0 - 50, 0 - 50, 0 - 40, 0 - 40, 0 - 30,
      0 - 30, 0 - 40, 0 - 40, 0 - 50, 0 - 50, 0 - 40, 0 - 40, 0 - 30,
      0 - 30, 0 - 40, 0 - 40, 0 - 50, 0 - 50, 0 - 40, 0 - 40, 0 - 30,
      0 - 30, 0 - 40, 0 - 40, 0 - 50, 0 - 50, 0 - 40, 0 - 40, 0 - 30,
      0 - 20, 0 - 30, 0 - 30, 0 - 40, 0 - 40, 0 - 30, 0 - 30, 0 - 20,
      0 - 10, 0 - 20, 0 - 20, 0 - 20, 0 - 20, 0 - 20, 0 - 20, 0 - 10,
      20, 20, 0, 0, 0, 0, 20, 20,
      20, 30, 10, 0, 0, 10, 30, 20>>

kingEndTable ==
    <<0 - 50, 0 - 40, 0 - 30, 0 - 20, 0 - 20, 0 - 30, 0 - 40, 0 - 50,
      0 - 30, 0 - 20, 0 - 10, 0, 0, 0 - 10, 0 - 20, 0 - 30,
      0 - 30, 0 - 10, 20, 30, 30, 20, 0 - 10, 0 - 30,
      0 - 30, 0 - 10, 30, 40, 40, 30, 0 - 10, 0 - 30,
      0 - 30, 0 - 10, 30, 40, 40, 30, 0 - 10, 0 - 30,
      0 - 30, 0 - 10, 20, 30, 30, 20, 0 - 10, 0 - 30,
      0 - 30, 0 - 30, 0, 0, 0, 0, 0 - 30, 0 - 30,
      0 - 50, 0 - 30, 0 - 30, 0 - 30, 0 - 30, 0 - 30, 0 - 30, 0 - 50>>

MaterialValue(piece) ==
    CASE piece = WP -> PawnValue
      [] piece = WN -> KnightValue
      [] piece = WB -> BishopValue
      [] piece = WR -> RookValue
      [] piece = WQ -> QueenValue
      [] piece = WK -> KingValue
      [] piece = BP -> 0 - PawnValue
      [] piece = BN -> 0 - KnightValue
      [] piece = BB -> 0 - BishopValue
      [] piece = BR -> 0 - RookValue
      [] piece = BQ -> 0 - QueenValue
      [] piece = BK -> 0 - KingValue
      [] OTHER -> 0

\* The sum of Term over the squares lo..hi, as the evaluation's loops over
\* the board accumulate it.
RECURSIVE SumOver(_, _, _)
SumOver(term, lo, hi) ==
    IF lo = hi THEN term[lo]
    ELSE SumOver(term, lo, (lo + hi) \div 2) + SumOver(term, (lo + hi) \div 2 + 1, hi)

evaluateMaterial(b) ==
    LET Term(i) == MaterialValue(b.Squares[i])
    IN SumOver([i \in 0..63 |-> Term(i)], 0, 63)

isEndgame(b) ==
    LET hasWhiteQueen == \E i \in 0..63 : b.Squares[i] = WQ
        hasBlackQueen == \E i \in 0..63 : b.Squares[i] = BQ
        whitePieces == Cardinality({i \in 0..63 : b.Squares[i] \in {WN, WB, WR}})
        blackPieces == Cardinality({i \in 0..63 : b.Squares[i] \in {BN, BB, BR}})
    IN (~hasWhiteQueen /\ ~hasBlackQueen) \/ (whitePieces <= 1 /\ blackPieces <= 1)

\* The piece-square term of one square; black reads the table at 63-square.
SquareBonus(piece, square, isEnd) ==
    LET blackSquare == 63 - square
    IN CASE piece = WP -> pawnTable[square + 1]
         [] piece = BP -> 0 - pawnTable[blackSquare + 1]
         [] piece = WN -> knightTable[square + 1]
         [] piece = BN -> 0 - knightTable[blackSquare + 1]
         [] piece = WB -> bishopTable[square + 1]
         [] piece = BB -> 0 - bishopTable[blackSquare + 1]
         [] piece = WR -> rookTable[square + 1]
         [] piece = BR -> 0 - rookTable[blackSquare + 1]
         [] piece = WQ -> queenTable[square + 1]
         [] piece = BQ -> 0 - queenTable[blackSquare + 1]
         [] piece = WK -> IF isEnd THEN kingEndTable[square + 1] ELSE kingMiddleTable[square + 1]
         [] piece = BK -> IF isEnd THEN 0 - kingEndTable[blackSquare + 1]
                          ELSE 0 - kingMiddleTable[blackSquare + 1]
         [] OTHER -> 0

evaluatePosition(b) ==
    LET Bonus(isEnd) ==
          LET Term(i) == SquareBonus(b.Squares[i], i, isEnd)
          IN SumOver([i \in 0..63 |-> Term(i)], 0, 63)
    IN Bonus(isEndgame(b))

evaluateKingPosition(b, kingRank, kingFile, isWhite) ==
    LET edgeDistance == min(min(kingRank, 7 - kingRank), min(kingFile, 7 - kingFile))
    IN IF edgeDistance <= 1 THEN 0 - 30 ELSE 0

EnemyMaterialValue(piece) ==
    CASE piece \in {WQ, BQ} -> 900
      [] piece \in {WR, BR} -> 500
      [] piece \in {WN, BN, WB, BB} -> 300
      [] piece \in {WP, BP} -> 100
      [] OTHER -> 0

evaluateEndgameKingPosition(b, kingRank, kingFile, isWhite) ==
    LET Term(i) == IF b.Squares[i] # Empty /\ (b.Squares[i] < BP) # isWhite
                   THEN EnemyMaterialValue(b.Squares[i]) ELSE 0
        edgeDistance == min(min(kingRank, 7 - kingRank), min(kingFile, 7 - kingFile))
    IN (IF SumOver([i \in 0..63 |-> Term(i)], 0, 63) > 300 THEN 0 - (2 - edgeDistance) * 150 ELSE 0)
       + (IF (kingRank = 0 \/ kingRank = 7) /\ (kingFile = 0 \/ kingFile = 7)
          THEN 0 - 300 ELSE 0)

evaluateKingSafety(b) ==
    LET wk == findKing(b, TRUE)
        bk == findKing(b, FALSE)
    IN IF wk[1] = 0 - 1 \/ bk[1] = 0 - 1 THEN 0
       ELSE IF ~isEndgame(b)
            THEN evaluateKingPosition(b, wk[1], wk[2], TRUE)
                 - evaluateKingPosition(b, bk[1], bk[2], FALSE)
            ELSE evaluateEndgameKingPosition(b, wk[1], wk[2], TRUE)
                 - evaluateEndgameKingPosition(b, bk[1], bk[2], FALSE)

evaluateMobility(b) == 0

getPieceValue(piece) ==
    CASE piece \in {WP, BP} -> PawnValue
      [] piece \in {WN, BN} -> KnightValue
      [] piece \in {WB, BB} -> BishopValue
      [] piece \in {WR, BR} -> RookValue
      [] piece \in {WQ, BQ} -> QueenValue
      [] piece \in {WK, BK} -> KingValue
      [] OTHER -> 0

\* The hanging-piece term of one square.
HangingTerm(b, i) ==
    LET piece == b.Squares[i]
        isWhite == piece < 7
    IN IF /\ piece # Empty
          /\ isSquareAttacked(b, i \div 8, i % 8, ~isWhite)
          /\ ~isSquareAttacked(b, i \div 8, i % 8, isWhite)
       THEN IF isWhite THEN 0 - getPieceValue(piece) * 5 ELSE getPieceValue(piece) * 5
       ELSE 0

evaluateTactics(b) ==
    LET g5Piece == GetPiece(b, 3, 6)
        f3Piece == GetPiece(b, 5, 5)
        Term(i) == HangingTerm(b, i)
    IN (IF g5Piece = BQ /\ f3Piece = WN THEN 0 - 150000 ELSE 0)
       + (IF g5Piece = WQ /\ f3Piece = BN THEN 150000 ELSE 0)
       + SumOver([i \in 0..63 |-> Term(i)], 0, 63)

\* engine.Evaluate
Evaluate(b) ==
    LET Signed(score) == IF ~b.WhiteToMove THEN 0 - score ELSE score
        Scored(base) ==
          Signed(base + (IF GetPositionCount(b) >= 2
                         THEN IF base > 0 THEN 0 - 200
                              ELSE IF base < 0 - 500 THEN 0 ELSE 0 - 100
                         ELSE 0))
    IN IF IsDraw(b) THEN 0
       ELSE Scored(evaluateMaterial(b) + evaluatePosition(b) + evaluateKingSafety(b)
                   + evaluateMobility(b) + evaluateTactics(b) * 3)

\* ------------------------------------------------------------------ search
MaxInt32 == 2147483647

getPieceValueForOrdering(piece) ==
    CASE piece \in {WP, BP} -> 1
      [] piece \in {WN, BN, WB, BB} -> 3
      [] piece \in {WR, BR} -> 5
      [] piece \in {WQ, BQ} -> 9
      [] piece \in {WK, BK} -> 100
      [] OTHER -> 0

movesEqual(a, c) == a.From = c.From /\ a.To = c.To /\ a.Piece = c.Piece

\* The trial of orderMoves and generateTacticalMoves: make the move, ask
\* whether the side now to move is in check, undo it.  [ok, givesCheck, b]
CheckTrial(b, move) ==
    LET Made(m) ==
          IF ~m.undoInfo.ok THEN [ok |-> FALSE, givesCheck |-> FALSE, b |-> m.b]
          ELSE [ok |-> TRUE,
                givesCheck |-> IsInCheck(m.b, m.b.WhiteToMove),
                b |-> undoMove(m.b, move, m.undoInfo)]
    IN Made(makeMove(b, move))

\* The classification loop of orderMoves over moveList[lo..hi], in order,
\* each iteration on the board left by the iterations before.
RECURSIVE OrderLoop(_, _, _, _, _)
OrderLoop(b, moveList, prevBestMove, lo, hi) ==
    LET None(board) ==
          [b |-> board, bestMove |-> <<>>, winningCaptures |-> <<>>, equalCaptures |-> <<>>,
           checks |-> <<>>, regularMoves |-> <<>>]
        Capture(move, fromSquare, toSquare) ==
          IF fromSquare < 0 THEN None(b)
          ELSE IF getPieceValueForOrdering(b.Squares[toSquare])
                    >= getPieceValueForOrdering(b.Squares[fromSquare])
               THEN [None(b) EXCEPT !.winningCaptures = <<move>>]
               ELSE [None(b) EXCEPT !.equalCaptures = <<move>>]
        Tried(move, t) ==
          IF t.ok /\ t.givesCheck THEN [None(t.b) EXCEPT !.checks = <<move>>]
          ELSE [None(t.b) EXCEPT !.regularMoves = <<move>>]
        Classify(move, fromSquare, toSquare) ==
          IF movesEqual(move, prevBestMove) THEN [None(b) EXCEPT !.bestMove = <<move>>]
          ELSE IF toSquare >= 0 /\ b.Squares[toSquare] # Empty
          THEN Capture(move, fromSquare, toSquare)
          ELSE Tried(move, CheckTrial(b, move))
        Join(first, rest) ==
          [bestMove |-> first.bestMove \o rest.bestMove,
           winningCaptures |-> first.winningCaptures \o rest.winningCaptures,
           equalCaptures |-> first.equalCaptures \o rest.equalCaptures,
           checks |-> first.checks \o rest.checks,
           regularMoves |-> first.regularMoves \o rest.regularMoves,
           b |-> rest.b]
        Then(first) ==
          Join(first, OrderLoop(first.b, moveList, prevBestMove, (lo + hi) \div 2 + 1, hi))
    IN IF lo > hi THEN None(b)
       ELSE IF lo = hi
       THEN Classify(moveList[lo], GetSquare(b, moveList[lo].From), GetSquare(b, moveList[lo].To))
       ELSE Then(OrderLoop(b, moveList, prevBestMove, lo, (lo + hi) \div 2))

\* An ordering that keeps one move only of those equal to the previous best.
orderMovesOneBest(moveList, b, prevBestMove) ==
    LET Ordered(r) ==
          [moves |-> (IF r.bestMove = <<>> THEN <<>> ELSE <<r.bestMove[1]>>)
                     \o r.winningCaptures \o r.checks \o r.equalCaptures \o r.regularMoves,
           b |-> r.b]
    IN Ordered(OrderLoop(b, moveList, prevBestMove, 1, Len(moveList)))

\* engine.orderMoves: [moves, b]
orderMoves(moveList, b, prevBestMove) ==
    LET Ordered(r) ==
          [moves |-> r.bestMove \o r.winningCaptures \o r.checks \o r.equalCaptures
                     \o r.regularMoves,
           b |-> r.b]
    IN Ordered(OrderLoop(b, moveList, prevBestMove, 1, Len(moveList)))

\* The loop of generateTacticalMoves over allMoves[lo..hi], in order.
RECURSIVE TacticalLoop(_, _, _, _)
TacticalLoop(b, allMoves, lo, hi) ==
    LET Tried(move, t) ==
          [moves |-> IF t.ok /\ t.givesCheck THEN <<move>> ELSE <<>>, b |-> t.b]
        Classify(move, toSquare) ==
          IF toSquare >= 0 /\ b.Squares[toSquare] # Empty THEN [moves |-> <<move>>, b |-> b]
          ELSE Tried(move, CheckTrial(b, move))
        Join(first, rest) == [moves |-> first.moves \o rest.moves, b |-> rest.b]
        Then(first) == Join(first, TacticalLoop(first.b, allMoves, (lo + hi) \div 2 + 1, hi))
    IN IF lo > hi THEN [moves |-> <<>>, b |-> b]
       ELSE IF lo = hi THEN Classify(allMoves[lo], GetSquare(b, allMoves[lo].To))
       ELSE Then(TacticalLoop(b, allMoves, lo, (lo + hi) \div 2))

\* engine.generateTacticalMoves: [moves, b]
generateTacticalMoves(b) ==
    LET Filtered(g) == TacticalLoop(g.b, g.moves, 1, Len(g.moves))
    IN Filtered(GenerateMoves(b))

\* The quiescence depth past which quiesceSearch returns the evaluation.
MaxQDepth == 8

\* A limit one ply past the one quiesceSearch has.
QuiesceLimitReachedLater(qDepth) == qDepth > MaxQDepth + 1

\* The test quiesceSearch opens with: the search has gone deep enough.
QuiesceLimitReached(qDepth) == qDepth > MaxQDepth

RECURSIVE quiesceSearch(_, _, _, _)
RECURSIVE QuiesceLoop(_, _, _, _, _, _, _, _)

\* The move loop of quiesceSearch over tacticalMoves[lo..hi], in order, up
\* to the beta cutoff: [b, alpha, cut, deepest], deepest being the largest
\* qDepth any call of quiesceSearch was made with so far.
QuiesceLoop(b, tacticalMoves, lo, hi, alpha, beta, qDepth, deepest) ==
    LET Undone(u, score, reached) ==
          IF score >= beta THEN [b |-> u, alpha |-> alpha, cut |-> TRUE, deepest |-> reached]
          ELSE [b |-> u, alpha |-> max(alpha, score), cut |-> FALSE, deepest |-> reached]
        Searched(move, m, r) ==
          Undone(undoMove(r.b, move, m.undoInfo), 0 - r.score, max(deepest, r.deepest))
        Made(move, m) ==
          IF ~m.undoInfo.ok
          THEN [b |-> m.b, alpha |-> alpha, cut |-> FALSE, deepest |-> deepest]
          ELSE Searched(move, m, quiesceSearch(m.b, 0 - beta, 0 - alpha, qDepth + 1))
        Then(first) ==
          IF first.cut THEN first
          ELSE QuiesceLoop(first.b, tacticalMoves, (lo + hi) \div 2 + 1, hi,
                           first.alpha, beta, qDepth, first.deepest)
    IN IF lo > hi THEN [b |-> b, alpha |-> alpha, cut |-> FALSE, deepest |-> deepest]
       ELSE IF lo = hi THEN Made(tacticalMoves[lo], makeMove(b, tacticalMoves[lo]))
       ELSE Then(QuiesceLoop(b, tacticalMoves, lo, (lo + hi) \div 2, alpha, beta, qDepth,
                             deepest))

\* engine.quiesceSearch: [b, score, deepest], deepest being the largest
\* qDepth this call or a call below it was made with.
quiesceSearch(b, alpha, beta, qDepth) ==
    LET Looped(r) ==
          [b |-> r.b, score |-> IF r.cut THEN beta ELSE r.alpha, deepest |-> r.deepest]
        Tactical(standPat, t) ==
          IF Len(t.moves) = 0 THEN [b |-> t.b, score |-> standPat, deepest |-> qDepth]
          ELSE Looped(QuiesceLoop(t.b, t.moves, 1, Len(t.moves), max(alpha, standPat),
                                  beta, qDepth, qDepth))
        Standing(standPat) ==
          IF standPat >= beta THEN [b |-> b, score |-> beta, deepest |-> qDepth]
          ELSE Tactical(standPat, generateTacticalMoves(b))
    IN IF QuiesceLimitReached(qDepth)
       THEN [b |-> b, score |-> Evaluate(b), deepest |-> qDepth]
       ELSE Standing(Evaluate(b))

\* A cut that is made while the window is still open by a pawn's worth.
BetaCutoffEarly(alpha, beta) == beta <= alpha + 100

\* The test that ends the move loop of minimax (alpha-beta pruning).
BetaCutoff(alpha, beta) == beta <= alpha

RECURSIVE minimax(_, _, _, _, _, _)
RECURSIVE MinimaxLoop(_, _, _, _, _, _, _, _, _, _)

\* The move loop of minimax over legalMoves[lo..hi], in order, up to the
\* cutoff, bestScore being maxScore or minScore so far:
\* [b, move, score, alpha, beta, cut, pruned], pruned telling whether this
\* loop or a loop below it was ended by the cutoff.
MinimaxLoop(b, legalMoves, lo, hi, depth, alpha, beta, maximizingPlayer, bestMove, bestScore) ==
    LET Pruned(u, newMove, newScore, newAlpha, newBeta, below) ==
          [b |-> u, move |-> newMove, score |-> newScore, alpha |-> newAlpha,
           beta |-> newBeta, cut |-> BetaCutoff(newAlpha, newBeta),
           pruned |-> below \/ BetaCutoff(newAlpha, newBeta)]
        Compared(u, move, score, better, below) ==
          Pruned(u, IF better THEN move ELSE bestMove, IF better THEN score ELSE bestScore,
                 IF maximizingPlayer THEN max(alpha, score) ELSE alpha,
                 IF maximizingPlayer THEN beta ELSE min(beta, score), below)
        Searched(move, m, r) ==
          Compared(undoMove(r.b, move, m.undoInfo), move, r.score,
                   IF maximizingPlayer THEN r.score > bestScore ELSE r.score < bestScore,
                   r.pruned)
        Made(move, m) ==
          IF ~m.undoInfo.ok
          THEN [b |-> m.b, move |-> bestMove, score |-> bestScore, alpha |-> alpha,
                beta |-> beta, cut |-> FALSE, pruned |-> FALSE]
          ELSE Searched(move, m, minimax(m.b, depth - 1, alpha, beta, ~maximizingPlayer, NoMove))
        Both(first, rest) == [rest EXCEPT !.pruned = first.pruned \/ rest.pruned]
        Then(first) ==
          IF first.cut THEN first
          ELSE Both(first,
                    MinimaxLoop(first.b, legalMoves, (lo + hi) \div 2 + 1, hi, depth,
                                first.alpha, first.beta, maximizingPlayer, first.move,
                                first.score))
    IN IF lo > hi
       THEN [b |-> b, move |-> bestMove, score |-> bestScore, alpha |-> alpha,
             beta |-> beta, cut |-> FALSE, pruned |-> FALSE]
       ELSE IF lo = hi THEN Made(legalMoves[lo], makeMove(b, legalMoves[lo]))
       ELSE Then(MinimaxLoop(b, legalMoves, lo, (lo + hi) \div 2, depth, alpha, beta,
                             maximizingPlayer, bestMove, bestScore))

\* engine.minimax: [b, move, score, pruned], pruned telling whether a move
\* loop of this call or of a call below it was ended by the cutoff.
minimax(b, depth, alpha, beta, maximizingPlayer, prevBestMove) ==
    LET Quiesced(q) == [b |-> q.b, move |-> NoMove, score |-> q.score, pruned |-> FALSE]
        Looped(r) == [b |-> r.b, move |-> r.move, score |-> r.score, pruned |-> r.pruned]
        Ordered(o) ==
          IF Len(o.moves) = 0
          THEN IF IsInCheck(o.b, o.b.WhiteToMove)
               THEN [b |-> o.b, move |-> NoMove,
                     score |-> IF maximizingPlayer THEN 0 - 10000 - depth ELSE 10000 + depth,
                     pruned |-> FALSE]
               ELSE [b |-> o.b, move |-> NoMove, score |-> 0, pruned |-> FALSE]
          ELSE Looped(MinimaxLoop(o.b, o.moves, 1, Len(o.moves), depth, alpha, beta,
                                  maximizingPlayer, NoMove,
                                  IF maximizingPlayer THEN 0 - MaxInt32 ELSE MaxInt32))
        Generated(g) == Ordered(orderMoves(g.moves, g.b, prevBestMove))
    IN IF IsDraw(b) THEN [b |-> b, move |-> NoMove, score |-> 0, pruned |-> FALSE]
       ELSE IF depth = 0 THEN Quiesced(quiesceSearch(b, alpha, beta, 0))
       ELSE Generated(GenerateMoves(b))

\* An opening book that knows White's first move only.
getOpeningMoveFirstMoveOnly(b) ==
    IF b.WhiteToMove /\ Len(b.MovesPlayed) = 0
    THEN <<[NoMove EXCEPT !.From = <<"e", "2">>, !.To = <<"e", "4">>, !.Piece = <<"P">>]>>
    ELSE <<>>

\* engine.getOpeningMove: <<>> for nil, else a one-element sequence.
getOpeningMove(b) ==
    LET moveCount == Len(b.MovesPlayed)
    IN IF moveCount > 6 THEN <<>>
       ELSE IF b.WhiteToMove
       THEN IF moveCount = 0
            THEN <<[NoMove EXCEPT !.From = <<"e", "2">>, !.To = <<"e", "4">>, !.Piece = <<"P">>]>>
            ELSE IF moveCount = 2 /\ GetPiece(b, 7, 6) = WN
            THEN <<[NoMove EXCEPT !.From = <<"g", "1">>, !.To = <<"f", "3">>, !.Piece = <<"N">>]>>
            ELSE <<>>
       ELSE IF moveCount = 1 /\ b.MovesPlayed[1] = <<"e", "4">>
            THEN <<[NoMove EXCEPT !.From = <<"e", "7">>, !.To = <<"e", "5">>, !.Piece = <<"P">>]>>
            ELSE IF moveCount = 1 /\ b.MovesPlayed[1] = <<"d", "4">>
            THEN <<[NoMove EXCEPT !.From = <<"d", "7">>, !.To = <<"d", "5">>, !.Piece = <<"P">>]>>
            ELSE <<>>

\* The iterative-deepening loop of FindBestMove from currentDepth on.
RECURSIVE DeepenLoop(_, _, _, _, _)
DeepenLoop(b, currentDepth, maxDepth, bestMove, bestScore) ==
    LET Searched(r) == DeepenLoop(r.b, currentDepth + 1, maxDepth, r.move, r.score)
    IN IF currentDepth > maxDepth THEN [b |-> b, BestMove |-> bestMove, Score |-> bestScore]
       ELSE Searched(minimax(b, currentDepth, 0 - MaxInt32, MaxInt32, b.WhiteToMove, bestMove))

\* engine.FindBestMove: [b, BestMove, Score], b being the board it leaves.
FindBestMove(b, maxDepth) ==
    LET openingMove == getOpeningMove(b)
    IN IF openingMove # <<>> THEN [b |-> b, BestMove |-> openingMove[1], Score |-> 0]
       ELSE DeepenLoop(b, 1, maxDepth, NoMove, 0)

\* --------------------------------------------------------------------- FEN
DigitChars == <<"0", "1", "2", "3", "4", "5", "6", "7", "8", "9">>

\* The value of a decimal digit, -1 for any other character.
DigitValue(c) == IF \E i \in 1..10 : DigitChars[i] = c
                 THEN (CHOOSE i \in 1..10 : DigitChars[i] = c) - 1 ELSE 0 - 1

\* strconv.Itoa
RECURSIVE Itoa(_)
Itoa(n) == IF n < 0 THEN <<"-">> \o Itoa(0 - n)
           ELSE IF n < 10 THEN <<DigitChars[n + 1]>>
           ELSE Itoa(n \div 10) \o <<DigitChars[(n % 10) + 1]>>

\* strconv.Atoi: an optional sign and then one or more decimal digits.
RECURSIVE Atoi(_)
Atoi(s) ==
    IF s = <<>> THEN [ok |-> FALSE, n |-> 0]
    ELSE IF s[1] \in {"+", "-"}
    THEN IF Len(s) = 1 \/ s[2] \in {"+", "-"} THEN [ok |-> FALSE, n |-> 0]
         ELSE LET Signed(rest) == [ok |-> rest.ok,
                                   n |-> IF s[1] = "-" THEN 0 - rest.n ELSE rest.n]
              IN Signed(Atoi(Tail(s)))
    ELSE IF DigitValue(s[Len(s)]) < 0 THEN [ok |-> FALSE, n |-> 0]
    ELSE IF Len(s) = 1 THEN [ok |-> TRUE, n |-> DigitValue(s[1])]
    ELSE LET Shifted(front) == [ok |-> front.ok, n |-> front.n * 10 + DigitValue(s[Len(s)])]
         IN Shifted(Atoi(SubSeq(s, 1, Len(s) - 1)))

\* strings.Split(s, sep) for a one-character separator: the pieces between
\* the separators, empty pieces included.
Split(s, seps) ==
    LET cuts == {0, Len(s) + 1} \cup {i \in 1..Len(s) : s[i] \in seps}
        cut == [k \in 1..Cardinality(cuts) |->
                   CHOOSE x \in cuts : Cardinality({y \in cuts : y < x}) = k - 1]
    IN [k \in 1..(Cardinality(cuts) - 1) |-> SubSeq(s, cut[k] + 1, cut[k + 1] - 1)]

\* strings.Fields: the pieces between runs of white space.
Fields(s) ==
    LET NotEmpty(part) == part # <<>>
    IN SelectSeq(Split(s, {" ", "\t", "\n", "\r"}), NotEmpty)

pieceToFENChar(piece) ==
    CASE piece = WP -> "P" [] piece = WN -> "N" [] piece = WB -> "B"
      [] piece = WR -> "R" [] piece = WQ -> "Q" [] piece = WK -> "K"
      [] piece = BP -> "p" [] piece = BN -> "n" [] piece = BB -> "b"
      [] piece = BR -> "r" [] piece = BQ -> "q" [] piece = BK -> "k"
      [] OTHER -> "?"

\* A reading of the piece letters that takes every letter for a white piece.
fenCharToPieceWhite(char) ==
    CASE ToUpperChar(char) = "P" -> WP [] ToUpperChar(char) = "N" -> WN
      [] ToUpperChar(char) = "B" -> WB [] ToUpperChar(char) = "R" -> WR
      [] ToUpperChar(char) = "Q" -> WQ [] ToUpperChar(char) = "K" -> WK
      [] OTHER -> 0 - 1

\* fenCharToPiece: the piece, or -1 for the error.
fenCharToPiece(char) ==
    CASE char = "P" -> WP [] char = "N" -> WN [] char = "B" -> WB
      [] char = "R" -> WR [] char = "Q" -> WQ [] char = "K" -> WK
      [] char = "p" -> BP [] char = "n" -> BN [] char = "b" -> BB
      [] char = "r" -> BR [] char = "q" -> BQ [] char = "k" -> BK
      [] OTHER -> 0 - 1

\* ToFEN's text for one rank: a piece letter for an occupied square, and the
\* length of a run of empty squares where the run ends.
FENRank(b, rank) ==
    LET At(file) ==
          IF GetPiece(b, rank, file) # Empty THEN <<pieceToFENChar(GetPiece(b, rank, file))>>
          ELSE IF file < 7 /\ GetPiece(b, rank, file + 1) = Empty THEN <<>>
          ELSE Itoa(Cardinality({f \in 0..file :
                       \A g \in f..file : GetPiece(b, rank, g) = Empty}))
    IN At(0) \o At(1) \o At(2) \o At(3) \o At(4) \o At(5) \o At(6) \o At(7)

\* Board.ToFEN
ToFEN(b) ==
    FENRank(b, 0) \o <<"/">> \o FENRank(b, 1) \o <<"/">> \o FENRank(b, 2) \o <<"/">>
      \o FENRank(b, 3) \o <<"/">> \o FENRank(b, 4) \o <<"/">> \o FENRank(b, 5) \o <<"/">>
      \o FENRank(b, 6) \o <<"/">> \o FENRank(b, 7)
      \o <<" ">> \o (IF b.WhiteToMove THEN <<"w">> ELSE <<"b">>)
      \o <<" ">> \o (IF b.CastlingRights % 16 = 0 THEN <<"-">>
                     ELSE (IF HasBit(b.CastlingRights, 1) THEN <<"K">> ELSE <<>>)
                       \o (IF HasBit(b.CastlingRights, 2) THEN <<"Q">> ELSE <<>>)
                       \o (IF HasBit(b.CastlingRights, 4) THEN <<"k">> ELSE <<>>)
                       \o (IF HasBit(b.CastlingRights, 8) THEN <<"q">> ELSE <<>>))
      \o <<" ">> \o (IF b.EnPassant = <<>> THEN <<"-">> ELSE b.EnPassant)
      \o <<" ">> \o Itoa(b.HalfMoveClock)
      \o <<" ">> \o Itoa(b.FullMoveNumber)

\* FromFEN's placement loop over the eight rank texts.  The file a character
\* is read at is the sum of what the characters before it in its rank
\* advanced; the loop stops at the first character, in reading order, that
\* is no piece letter or finds the rank full, and every piece read before
\* it has been put on the board.
FromFENPlacement(b, ranks) ==
    LET IsCount(c) == DigitValue(c) >= 1 /\ DigitValue(c) <= 8
        Advance(c) == IF IsCount(c) THEN DigitValue(c) ELSE 1
        RECURSIVE FileAt(_, _)
        FileAt(rankStr, i) == IF i = 1 THEN 0
                              ELSE FileAt(rankStr, i - 1) + Advance(rankStr[i - 1])
        Where == UNION {{<<r, i>> : i \in 1..Len(ranks[r])} : r \in 1..8}
        BadPiece(w) == ~IsCount(ranks[w[1]][w[2]]) /\ fenCharToPiece(ranks[w[1]][w[2]]) < 0
        FullRank(w) == /\ ~IsCount(ranks[w[1]][w[2]])
                       /\ FileAt(ranks[w[1]], w[2]) >= 8
        Before(v, w) == v[1] < w[1] \/ (v[1] = w[1] /\ v[2] < w[2])
        Stops == {w \in Where : BadPiece(w) \/ FullRank(w)}
        Placed(stop) ==
          [b EXCEPT !.Squares =
             [sq \in 0..63 |->
                LET here == {w \in Where :
                               /\ w[1] - 1 = sq \div 8
                               /\ ~IsCount(ranks[w[1]][w[2]])
                               /\ FileAt(ranks[w[1]], w[2]) = sq % 8
                               /\ stop # <<>> => Before(w, stop[1])}
                IN IF here = {} THEN Empty
                   ELSE LET w == CHOOSE w \in here : TRUE
                        IN fenCharToPiece(ranks[w[1]][w[2]])]]
        Stopped(stop) ==
          [b |-> Placed(stop),
           err |-> IF stop = <<>> THEN "nil"
                   ELSE IF BadPiece(stop[1]) THEN "invalid FEN: invalid piece character"
                   ELSE "invalid FEN: too many pieces in rank"]
    IN Stopped(IF Stops = {} THEN <<>>
               ELSE <<CHOOSE w \in Stops : \A v \in Stops : v = w \/ Before(w, v)>>)

\* A castling field read as all four rights, whatever it says.
FromFENCastlingAllRights(text) == [ok |-> TRUE, rights |-> 15]

\* FromFEN's castling loop: the rights read before the first character that
\* names none, and whether there was such a character.
FromFENCastling(text) ==
    LET Bit(c) == CASE c = "K" -> 1 [] c = "Q" -> 2 [] c = "k" -> 4 [] c = "q" -> 8
                    [] OTHER -> 0
        bad == {i \in 1..Len(text) : Bit(text[i]) = 0}
        read == IF bad = {} THEN 1..Len(text)
                ELSE {i \in 1..Len(text) : \A j \in bad : i < j}
        Has(bit) == \E i \in read : Bit(text[i]) = bit
    IN IF text = <<"-">> THEN [ok |-> TRUE, rights |-> 0]
       ELSE [ok |-> bad = {},
             rights |-> (IF Has(1) THEN 1 ELSE 0) + (IF Has(2) THEN 2 ELSE 0)
                          + (IF Has(4) THEN 4 ELSE 0) + (IF Has(8) THEN 8 ELSE 0)]

\* FromFEN from the active colour on, on the board the placement loop left.
FromFENFields(b, parts) ==
    LET Clocks(b3, halfmove, fullmove) ==
          IF ~halfmove.ok THEN Fail(b3, "invalid FEN: invalid halfmove clock")
          ELSE IF ~fullmove.ok
          THEN Fail([b3 EXCEPT !.HalfMoveClock = halfmove.n],
                    "invalid FEN: invalid fullmove number")
          ELSE Ok(RecordPosition([b3 EXCEPT !.HalfMoveClock = halfmove.n,
                                            !.FullMoveNumber = fullmove.n,
                                            !.PositionHistory = <<>>]))
        Castling(b1, castling) ==
          IF ~castling.ok
          THEN Fail([b1 EXCEPT !.CastlingRights = castling.rights],
                    "invalid FEN: invalid castling right")
          ELSE Clocks([b1 EXCEPT !.CastlingRights = castling.rights,
                                 !.EnPassant = IF parts[4] = <<"-">> THEN <<>> ELSE parts[4]],
                      Atoi(parts[5]), Atoi(parts[6]))
    IN IF parts[2] # <<"w">> /\ parts[2] # <<"b">>
       THEN Fail(b, "invalid FEN: invalid active color")
       ELSE Castling([b EXCEPT !.WhiteToMove = (parts[2] = <<"w">>)],
                     FromFENCastling(parts[3]))

\* Board.FromFEN
FromFEN(b, fen) ==
    LET cleared == [b EXCEPT !.Squares = [sq \in 0..63 |-> Empty]]
        Placed(parts, placement) ==
          IF placement.err # "nil" THEN placement
          ELSE FromFENFields(placement.b, parts)
        Ranks(parts, ranks) ==
          IF Len(ranks) # 8 THEN Fail(cleared, "invalid FEN: expected 8 ranks")
          ELSE Placed(parts, FromFENPlacement(cleared, ranks))
        Parts(parts) ==
          IF Len(parts) # 6 THEN Fail(b, "invalid FEN: expected 6 parts")
          ELSE Ranks(parts, Split(parts[1], {"/"}))
    IN Parts(Fields(fen))

\* ------------------------------------------------------------ web handlers
\* UndoMove's replay loop: MakeMove for each recorded notation in turn, up to
\* the first one that is refused.
RECURSIVE ReplayMoves(_, _)
ReplayMoves(b, movesToReplay) ==
    IF movesToReplay = <<>> THEN Ok(b)
    ELSE LET Replayed(r) == IF r.err # "nil" THEN r
                            ELSE ReplayMoves(r.b, Tail(movesToReplay))
         IN Replayed(MakeMove(b, Head(movesToReplay)))

\* UndoMove's restoring loop: MakeMove for every recorded notation, errors
\* ignored.
RECURSIVE RestoreMoves(_, _)
RestoreMoves(b, currentMoves) ==
    IF currentMoves = <<>> THEN b
    ELSE LET Restored(r) == IF r.err # "nil" THEN RestoreMoves(b, Tail(currentMoves))
                            ELSE RestoreMoves(r.b, Tail(currentMoves))
         IN Restored(MakeMove(b, Head(currentMoves)))

\* Server.UndoMove: a fresh board on which all recorded moves but the last
\* are replayed.
UndoMove(b) ==
    IF Len(b.MovesPlayed) = 0 THEN Fail(b, "No moves to undo!")
    ELSE LET Replayed(r) ==
               IF r.err # "nil"
               THEN Fail(RestoreMoves(NewBoard, b.MovesPlayed), "Failed to undo move")
               ELSE Ok(r.b)
         IN Replayed(ReplayMoves(NewBoard, SubSeq(b.MovesPlayed, 1, Len(b.MovesPlayed) - 1)))

\* Server.ResetGame
ResetGame(b) == Ok(NewBoard)

\* ------------------------------------------------------------ the program
\* gameBoard is the board the handlers share (cmd/main.go); last records the
\* call that produced the current state; occurrences counts, apart from the
\* program's own PositionHistory, how often each position has come about by
\* an applied move; calls counts the calls made since the initial state;
\* found is the SearchResult the last FindBestMove returned or, after a call
\* of minimax or quiesceSearch, the move and score of that call with the
\* depth it was asked for and what it reached; handlers holds,
\* for each goroutine serving web requests, the handler it runs and how far
\* that handler has come; uciEngine is the uci.Engine that NewEngine is
\* building (how far NewEngine has come, ready, the commands written to the
\* process, the lines the process has yet to write, what NewEngine returned
\* and what SetPosition returned).
VARIABLES gameBoard, last, occurrences, calls, found, handlers, uciEngine

vars == <<gameBoard, last, occurrences, calls, found, handlers, uciEngine>>

\* The state of a game that has just been set up.
Fresh ==
    [gameBoard |-> NewBoard,
     last |-> [op |-> "NewBoard", applied |-> FALSE, err |-> "nil", before |-> NewBoard],
     occurrences |-> HistoryPut(<<>>, GetPositionHash(NewBoard), 1)]

\* The state after a call op on st.gameBoard gave r = [b, err].
After(st, op, r) ==
    [gameBoard |-> r.b,
     last |-> [op |-> op, applied |-> r.err = "nil", err |-> r.err, before |-> st.gameBoard],
     occurrences |->
        IF r.err = "nil"
        THEN HistoryPut(st.occurrences, GetPositionHash(r.b),
                        HistoryGet(st.occurrences, GetPositionHash(r.b)) + 1)
        ELSE st.occurrences]

\* The moves ExecuteEngineMove is called with: the move FindBestMove
\* returned.  For a book position that is the book move; otherwise it is one
\* of the generated legal moves, which one depending on depth and evaluation.
EngineMoves(b) ==
    LET openingMove == getOpeningMove(b)
        legalMoves == GenerateMoves(b).moves
    IN IF openingMove # <<>> THEN {openingMove[1]}
       ELSE {legalMoves[k] : k \in 1..Len(legalMoves)}

UCI(a, b, c, d) == [op |-> "MakeUCIMove", uci |-> <<a, b, c, d>>]

SAN(notation) == [op |-> "MakeMove", notation |-> notation]

Engine(move) == [op |-> "ExecuteEngineMove", move |-> move]

\* One call of an entry point on the state st.
Do(st, call) ==
    CASE call.op = "MakeUCIMove" -> After(st, call.op, MakeUCIMove(st.gameBoard, call.uci))
      [] call.op = "MakeMove" -> After(st, call.op, MakeMove(st.gameBoard, call.notation))
      [] call.op = "ExecuteEngineMove" ->
            After(st, call.op, ExecuteEngineMove(st.gameBoard, call.move))

RECURSIVE Play(_, _)
Play(st, line) ==
    IF st.last.err # "nil" \/ line = <<>> THEN st
    ELSE Play(Do(st, Head(line)), Tail(line))


\* ------------------------------------------------- bounds and input sets
\* The number of calls explored after an initial state.
MaxCalls == 2

\* The requests the web server accepts in one exploration.
MaxRequests == 3

\* The lines the engine process writes before its output ends: at most
\* MaxLines of them.
MaxLines == 3

\* No engine process has been asked for.
NoEngine == [pc |-> "none", ready |-> FALSE, stdin |-> <<>>, output |-> <<>>,
             returned |-> "none", setPosition |-> "none"]

\* What a line of the engine's output can be, after TrimSpace.
EngineLines == {"id name Stockfish", "uciok", "readyok"}

\* The goroutines net/http serves requests on, one per connection.
Handlers == {1, 2}

\* A handler that is not serving a request.
Idle == [op |-> "idle", pc |-> "idle", currentMoves |-> <<>>, k |-> 0, move |-> <<>>]

\* The search depths asked for (cmd/main.go accepts 1..10).
Depths == {1}

\* The depths minimax is entered with on the board b: one move deep on a
\* game under way, and two moves deep as well on a game not yet begun.
MinimaxDepths(b) == IF Len(b.MovesPlayed) = 0 THEN {1, 2} ELSE {1}

\* The quiescence depths quiesceSearch is entered at: 0 as minimax enters
\* it, and the depths around its limit as its own recursion does.
QDepths == {0, 6, 7, 8, 9, 10}

\* Games already under way when the exploration starts; each is the list of
\* calls that produces it from NewBoard, so every initial state is one the
\* program reaches.
Openings ==
    << <<>>,
       \* 1.e4 e5 2.Qh5: the pawn on f7 shields the black king from the queen
       <<UCI("e", "2", "e", "4"), UCI("e", "7", "e", "5"), UCI("d", "1", "h", "5")>>,
       \* White ready to castle short, Black having just played h7-h5
       <<UCI("e", "2", "e", "4"), UCI("e", "7", "e", "5"), UCI("g", "1", "f", "3"),
         UCI("g", "8", "f", "6"), UCI("f", "1", "e", "2"), UCI("h", "7", "h", "5")>>,
       \* the same game after White has castled
       <<UCI("e", "2", "e", "4"), UCI("e", "7", "e", "5"), UCI("g", "1", "f", "3"),
         UCI("g", "8", "f", "6"), UCI("f", "1", "e", "2"), UCI("h", "7", "h", "5"),
         UCI("e", "1", "g", "1")>>,
       \* the engine opens 1.e4 from its book, then the knights go out and
       \* back once and out again
       <<Engine(Mv(<<"e", "2">>, <<"e", "4">>, "P", FALSE, <<>>, FALSE)),
         UCI("g", "8", "f", "6"), UCI("g", "1", "f", "3"), UCI("f", "6", "g", "8"),
         UCI("f", "3", "g", "1"), UCI("g", "8", "f", "6"), UCI("g", "1", "f", "3")>>,
       \* 1.e4 e6 2.e5 d5: White may capture en passant on d6
       <<UCI("e", "2", "e", "4"), UCI("e", "7", "e", "6"), UCI("e", "4", "e", "5"),
         UCI("d", "7", "d", "5")>>,
       \* 1.e3 a5 2.Qh5 Ra6 3.Qxa5 h5 4.h4 Rah6 5.Qxc7 f6 6.Qxd7+ Kf7 7.Qxb7 Qd3
       \* 8.Qxb8 Qh7 9.Qxc8 Kg6: 10.Qe6 leaves Black without a legal move
       <<UCI("e", "2", "e", "3"), UCI("a", "7", "a", "5"), UCI("d", "1", "h", "5"),
         UCI("a", "8", "a", "6"), UCI("h", "5", "a", "5"), UCI("h", "7", "h", "5"),
         UCI("h", "2", "h", "4"), UCI("a", "6", "h", "6"), UCI("a", "5", "c", "7"),
         UCI("f", "7", "f", "6"), UCI("c", "7", "d", "7"), UCI("e", "8", "f", "7"),
         UCI("d", "7", "b", "7"), UCI("d", "8", "d", "3"), UCI("b", "7", "b", "8"),
         UCI("d", "3", "h", "7"), UCI("b", "8", "c", "8"), UCI("f", "7", "g", "6")>>,
       \* 1.d4 e6 2.h3 h5 3.a3 h4 4.b3 Ke7 5.c3 Kf6 6.a4 Kg6 7.Qd3+ Kh5: after
       \* 8.g4+ the capture en passant on g3 is Black's only legal move
       <<UCI("d", "2", "d", "4"), UCI("e", "7", "e", "6"), UCI("h", "2", "h", "3"),
         UCI("h", "7", "h", "5"), UCI("a", "2", "a", "3"), UCI("h", "5", "h", "4"),
         UCI("b", "2", "b", "3"), UCI("e", "8", "e", "7"), UCI("c", "2", "c", "3"),
         UCI("e", "7", "f", "6"), UCI("a", "3", "a", "4"), UCI("f", "6", "g", "6"),
         UCI("d", "1", "d", "3"), UCI("g", "6", "h", "5")>>,
       \* 1.f3 e5 2.g4: 2...Qh4 is mate
       <<UCI("f", "2", "f", "3"), UCI("e", "7", "e", "5"), UCI("g", "2", "g", "4")>>,
       \* 1.f3 e5: the knight on g1 has a pawn of its own on f3
       <<UCI("f", "2", "f", "3"), UCI("e", "7", "e", "5")>>,
       \* 1.h4 g5 2.hxg5 a6 3.g6 a5 4.gxh7 a4: the pawn on h7 promotes by
       \* taking the knight on g8
       <<UCI("h", "2", "h", "4"), UCI("g", "7", "g", "5"), UCI("h", "4", "g", "5"),
         UCI("a", "7", "a", "6"), UCI("g", "5", "g", "6"), UCI("a", "6", "a", "5"),
         UCI("g", "6", "h", "7"), UCI("a", "5", "a", "4")>>,
       \* 1.e4 e5 2.Nf3 Nf6 3.Bc4 Bc5 4.Ke2 h6 5.Qe1 h5: the white queen on
       \* e1, f1 and g1 empty, the rook on h1
       <<UCI("e", "2", "e", "4"), UCI("e", "7", "e", "5"), UCI("g", "1", "f", "3"),
         UCI("g", "8", "f", "6"), UCI("f", "1", "c", "4"), UCI("f", "8", "c", "5"),
         UCI("e", "1", "e", "2"), UCI("h", "7", "h", "6"), UCI("d", "1", "e", "1"),
         UCI("h", "6", "h", "5")>>,
       \* 1.e4 e5 2.Ke2 a5: White has lost both castling rights, Black holds
       \* both, and a6 is the en-passant target
       <<UCI("e", "2", "e", "4"), UCI("e", "7", "e", "5"), UCI("e", "1", "e", "2"),
         UCI("a", "7", "a", "5")>>,
       \* 1.e4 and 1.d4: Black to answer the first move
       <<UCI("e", "2", "e", "4")>>,
       <<UCI("d", "2", "d", "4")>>,
       \* 1.c3 e5 2.Qb3: the white queen on b3
       <<UCI("c", "2", "c", "3"), UCI("e", "7", "e", "5"), UCI("d", "1", "b", "3")>> >>

UCIMoves ==
    {<<"e", "2", "e", "4">>, <<"g", "1", "f", "3">>, <<"f", "3", "g", "1">>,
     <<"g", "8", "f", "6">>, <<"f", "6", "g", "8">>, <<"e", "1", "g", "1">>,
     <<"f", "7", "f", "6">>, <<"h", "5", "e", "8">>, <<"e", "5", "d", "6">>,
     <<"e", "2", "e", "5">>, <<"c", "8", "e", "6">>, <<"g", "2", "g", "4">>,
     <<"d", "8", "h", "4">>, <<"h", "4", "g", "3">>, <<"h", "7", "g", "8", "n">>}

Notations ==
    {<<"e", "4">>, <<"f", "6">>, <<"N", "f", "3">>, <<"O", "-", "O">>,
     <<"Q", "x", "e", "8">>, <<"K", "e", "2">>, <<"x">>}

\* The texts FromFEN is called with on the board b: the board's own FEN, the
\* same text with other clocks, and that text made malformed in one place
\* (a field missing, a rank missing, a character that is no piece, a ninth
\* piece in a rank, an unknown colour, an unknown castling character, a
\* clock that is no number).
FENTexts(b) ==
    LET Joined(parts) == parts[1] \o <<" ">> \o parts[2] \o <<" ">> \o parts[3] \o <<" ">>
                           \o parts[4] \o <<" ">> \o parts[5] \o <<" ">> \o parts[6]
        Variants(parts) ==
          {Joined(parts),
           Joined([parts EXCEPT ![5] = <<"1", "2">>, ![6] = <<"3", "0">>]),
           parts[1] \o <<" ">> \o parts[2] \o <<" ">> \o parts[3] \o <<" ">> \o parts[4]
              \o <<" ">> \o parts[5],
           Joined([parts EXCEPT ![1] = <<"8", "/", "8">>]),
           Joined([parts EXCEPT ![1] = [@ EXCEPT ![Len(@)] = "x"]]),
           Joined([parts EXCEPT ![1] = @ \o <<"P">>]),
           Joined([parts EXCEPT ![2] = <<"x">>]),
           Joined([parts EXCEPT ![3] = <<"K", "x">>]),
           Joined([parts EXCEPT ![5] = <<"z">>]),
           Joined([parts EXCEPT ![6] = <<"1", "z">>])}
    IN Variants(Fields(ToFEN(b)))

\* The texts that set the clocks of the board b: the board's own FEN with
\* the clocks 12 and 30, and with the clock 7 before a move number that is
\* no number.
ClockTexts(b) ==
    LET Joined(parts) == parts[1] \o <<" ">> \o parts[2] \o <<" ">> \o parts[3] \o <<" ">>
                           \o parts[4] \o <<" ">> \o parts[5] \o <<" ">> \o parts[6]
        Variants(parts) ==
          {Joined([parts EXCEPT ![5] = <<"1", "2">>, ![6] = <<"3", "0">>]),
           Joined([parts EXCEPT ![5] = <<"7">>, ![6] = <<"1", "z">>])}
    IN Variants(Fields(ToFEN(b)))

\* The moves the engine may be seen to choose, by origin and target square.
EngineChoices ==
    {<<<<"e", "2">>, <<"e", "4">>>>, <<<<"e", "7">>, <<"e", "5">>>>,
     <<<<"g", "1">>, <<"f", "3">>>>, <<<<"f", "8">>, <<"d", "6">>>>,
     <<<<"e", "5">>, <<"d", "6">>>>}

Init ==
    \E i \in 1..Len(Openings) :
        LET Starts(st) ==
              /\ gameBoard = st.gameBoard
              /\ last = st.last
              /\ occurrences = st.occurrences
              /\ calls = 0
              /\ found = [BestMove |-> NoMove, Score |-> 0]
              /\ handlers = [h \in Handlers |-> Idle]
              /\ uciEngine = NoEngine
        IN Starts(Play(Fresh, Openings[i]))

Current == [gameBoard |-> gameBoard, last |-> last, occurrences |-> occurrences]

Becomes(st) ==
    /\ gameBoard' = st.gameBoard
    /\ last' = st.last
    /\ occurrences' = st.occurrences
    /\ calls' = calls + 1
    /\ found' = found
    /\ handlers' = handlers
    /\ uciEngine' = uciEngine

\* A caller asks for a move in UCI notation (web.Server.MakeMove).
CallMakeUCIMove ==
    /\ calls < MaxCalls
    /\ \E uciMove \in UCIMoves :
          Becomes(After(Current, "MakeUCIMove", MakeUCIMove(gameBoard, uciMove)))

\* A caller asks for a move in algebraic notation (cmd/main.go makeMove).
CallMakeMove ==
    /\ calls < MaxCalls
    /\ \E notation \in Notations : Becomes(After(Current, "MakeMove", MakeMove(gameBoard, notation)))

\* The engine's move is put on the board (cmd/main.go engineMove, after
\* the search).
CallExecuteEngineMove ==
    /\ calls < MaxCalls
    /\ \E move \in EngineMoves(gameBoard) :
          /\ <<move.From, move.To>> \in EngineChoices
          /\ Becomes(After(Current, "ExecuteEngineMove", ExecuteEngineMove(gameBoard, move)))

\* The engine is asked for its best move (cmd/main.go engineMove, the
\* search); the board is left as the search leaves it.
CallFindBestMove ==
    /\ calls = 0
    /\ \E depth \in Depths :
          LET Returns(result) ==
                /\ gameBoard' = result.b
                /\ found' = [BestMove |-> result.BestMove, Score |-> result.Score]
          IN /\ Returns(FindBestMove(gameBoard, depth))
             /\ last' = [op |-> "FindBestMove", applied |-> FALSE, err |-> "nil",
                         before |-> gameBoard]
             /\ occurrences' = occurrences
             /\ calls' = calls + 1
             /\ handlers' = handlers
             /\ uciEngine' = uciEngine

\* A caller sets the position from a FEN text (Board.FromFEN).
CallFromFEN ==
    /\ calls < MaxCalls
    /\ \E fen \in FENTexts(gameBoard) :
          Becomes(After(Current, "FromFEN", FromFEN(gameBoard, fen)))

\* A caller takes back the last move (web.Server.UndoMove).
CallUndoMove ==
    /\ calls < MaxCalls
    /\ Becomes(After(Current, "UndoMove", UndoMove(gameBoard)))

\* A caller starts a new game (web.Server.ResetGame).
CallResetGame ==
    /\ calls < MaxCalls
    /\ Becomes(After(Current, "ResetGame", ResetGame(gameBoard)))

Next == CallMakeUCIMove \/ CallMakeMove \/ CallExecuteEngineMove

Spec == Init /\ [][Next]_vars

SearchNext == Next \/ CallFindBestMove

SearchSpec == Init /\ [][SearchNext]_vars

\* ------------------------------------------------ handlers run by net/http
\* One step of handler h that leaves the board b and the handler as next;
\* started tells whether the step accepted a new request.
HandlerStep(h, op, b, next, started) ==
    /\ gameBoard' = b
    /\ handlers' = [handlers EXCEPT ![h] = next]
    /\ uciEngine' = uciEngine
    /\ last' = [op |-> op, applied |-> b # gameBoard, err |-> "nil", before |-> gameBoard]
    /\ occurrences' = occurrences
    /\ calls' = IF started THEN calls + 1 ELSE calls
    /\ found' = found

\* Server.MakeMove up to the return of MakeUCIMove (handlers.go 58-99).
HandleMakeMove(h) ==
    /\ handlers[h] = Idle
    /\ calls < MaxRequests
    /\ \E uciMove \in UCIMoves :
          HandlerStep(h, "MakeMove", MakeUCIMove(gameBoard, uciMove).b,
                      [Idle EXCEPT !.op = "MakeMove", !.pc = "respond", !.move = uciMove],
                      TRUE)

\* Server.EngineMove up to the engine's answer (handlers.go 196-268): the
\* board is written as FEN, and the engine answers with a move that is
\* legal in that position, or with none.
HandleEngineMove(h) ==
    /\ handlers[h] = Idle
    /\ calls < MaxRequests
    /\ \E bestMove \in {<<>>} \cup {u \in UCIMoves : MakeUCIMove(gameBoard, u).err = "nil"} :
          HandlerStep(h, "EngineMove", gameBoard,
                      [Idle EXCEPT !.op = "EngineMove",
                                   !.pc = IF bestMove = <<>> THEN "respond" ELSE "apply",
                                   !.move = bestMove],
                      TRUE)

\* Server.EngineMove: the engine's move is made on the board (handlers.go
\* 270-276).
EngineMoveApply(h) ==
    /\ handlers[h].pc = "apply"
    /\ HandlerStep(h, "EngineMove", MakeUCIMove(gameBoard, handlers[h].move).b,
                   [handlers[h] EXCEPT !.pc = "respond"], FALSE)

\* Server.UndoMove up to the fresh board (handlers.go 348-372).
HandleUndoMove(h) ==
    /\ handlers[h] = Idle
    /\ calls < MaxRequests
    /\ IF Len(gameBoard.MovesPlayed) = 0
       THEN HandlerStep(h, "UndoMove", gameBoard,
                        [Idle EXCEPT !.op = "UndoMove", !.pc = "respond"], TRUE)
       ELSE HandlerStep(h, "UndoMove", NewBoard,
                        [Idle EXCEPT !.op = "UndoMove",
                                     !.pc = IF Len(gameBoard.MovesPlayed) = 1
                                            THEN "respond" ELSE "replay",
                                     !.currentMoves = gameBoard.MovesPlayed,
                                     !.k = 1],
                        TRUE)

\* Server.UndoMove: one turn of the replay loop (handlers.go 374-388); a
\* refused move makes the handler restore the board from all the moves it
\* copied.
UndoMoveReplay(h) ==
    /\ handlers[h].pc = "replay"
    /\ LET Replayed(r) ==
             IF r.err # "nil"
             THEN HandlerStep(h, "UndoMove",
                              RestoreMoves(NewBoard, handlers[h].currentMoves),
                              [handlers[h] EXCEPT !.pc = "respond"], FALSE)
             ELSE HandlerStep(h, "UndoMove", r.b,
                              [handlers[h] EXCEPT
                                  !.pc = IF handlers[h].k + 1 < Len(handlers[h].currentMoves)
                                         THEN "replay" ELSE "respond",
                                  !.k = @ + 1],
                              FALSE)
       IN Replayed(MakeMove(gameBoard, handlers[h].currentMoves[handlers[h].k]))

\* Server.ResetGame up to the new board (handlers.go 430-438).
HandleResetGame(h) ==
    /\ handlers[h] = Idle
    /\ calls < MaxRequests
    /\ HandlerStep(h, "ResetGame", NewBoard,
                   [Idle EXCEPT !.op = "ResetGame", !.pc = "respond"], TRUE)

\* Every handler ends by reading the board into the game state it answers
\* with (game.CreateCompleteGameState, ToFEN).
HandlerRespond(h) ==
    /\ handlers[h].pc = "respond"
    /\ HandlerStep(h, handlers[h].op, gameBoard, Idle, FALSE)

\* net/http runs every request's handler on a goroutine of its own, and the
\* Server holds no lock: any handler may take its next step at any time.
ConcurrentNext ==
    \E h \in Handlers :
       \/ HandleMakeMove(h)
       \/ HandleEngineMove(h)
       \/ EngineMoveApply(h)
       \/ HandleUndoMove(h)
       \/ UndoMoveReplay(h)
       \/ HandleResetGame(h)
       \/ HandlerRespond(h)

\* The server as cmd/main.go starts it: a new board, no request in service.
ServerInit ==
    /\ gameBoard = NewBoard
    /\ last = Fresh.last
    /\ occurrences = Fresh.occurrences
    /\ calls = 0
    /\ found = [BestMove |-> NoMove, Score |-> 0]
    /\ handlers = [h \in Handlers |-> Idle]
    /\ uciEngine = NoEngine

ConcurrentSpec == ServerInit /\ [][ConcurrentNext]_vars

\* The web server answering one request at a time.
ServerNext == CallMakeUCIMove \/ CallUndoMove \/ CallResetGame

ServerSpec == Init /\ [][ServerNext]_vars

FENNext == CallMakeUCIMove \/ CallFromFEN

\* quiesceSearch is entered on the board with the full window, as minimax
\* enters it at a leaf when no bound is known yet; the board is left as the
\* search leaves it, and found also holds the depth asked for and the
\* deepest one reached.
CallQuiesceSearch ==
    /\ calls = 0
    /\ \E qDepth \in QDepths :
          LET Returns(r) ==
                /\ gameBoard' = r.b
                /\ found' = [BestMove |-> NoMove, Score |-> r.score, qDepth |-> qDepth,
                             deepest |-> r.deepest]
          IN /\ Returns(quiesceSearch(gameBoard, 0 - MaxInt32, MaxInt32, qDepth))
             /\ last' = [op |-> "quiesceSearch", applied |-> FALSE, err |-> "nil",
                         before |-> gameBoard]
             /\ occurrences' = occurrences
             /\ calls' = calls + 1
             /\ handlers' = handlers
             /\ uciEngine' = uciEngine

\* minimax is entered on the board with the full window for the side to
\* move, as FindBestMove enters it; the board is left as the search leaves
\* it, and found also holds the depth asked for and whether a move loop was
\* cut short.
CallMinimax ==
    /\ calls = 0
    /\ \E depth \in MinimaxDepths(gameBoard) :
          LET Returns(r) ==
                /\ gameBoard' = r.b
                /\ found' = [BestMove |-> r.move, Score |-> r.score, depth |-> depth,
                             pruned |-> r.pruned]
          IN /\ Returns(minimax(gameBoard, depth, 0 - MaxInt32, MaxInt32,
                                gameBoard.WhiteToMove, NoMove))
             /\ last' = [op |-> "minimax", applied |-> FALSE, err |-> "nil",
                         before |-> gameBoard]
             /\ occurrences' = occurrences
             /\ calls' = calls + 1
             /\ handlers' = handlers
             /\ uciEngine' = uciEngine

PruningNext == CallMakeUCIMove \/ CallMinimax \/ CallQuiesceSearch

PruningSpec == Init /\ [][PruningNext]_vars

QuiesceNext == CallMakeUCIMove \/ CallFindBestMove \/ CallQuiesceSearch

QuiesceSpec == Init /\ [][QuiesceNext]_vars

FENSpec == Init /\ [][FENNext]_vars

\* A caller sets the clocks of the position from a FEN text (Board.FromFEN).
CallFromFENClocks ==
    /\ calls < MaxCalls
    /\ \E fen \in ClockTexts(gameBoard) :
          Becomes(After(Current, "FromFEN", FromFEN(gameBoard, fen)))

ClockNext == Next \/ CallFromFENClocks

ClockSpec == Init /\ [][ClockNext]_vars


\* ------------------------------------------------ the external UCI engine
\* Engine.sendCommand when the write and the flush succeed (written) and
\* when the process has exited or the pipe is broken or closed, which
\* clears ready: [e, err]
sendCommand(e, command, written) ==
    IF written THEN [e |-> [e EXCEPT !.stdin = Append(@, command)], err |-> "nil"]
    ELSE [e |-> [e EXCEPT !.ready = FALSE], err |-> "failed to write command"]

\* One step of NewEngine leaves everything but the engine as it was.
EngineBecomes(e) ==
    /\ uciEngine' = e
    /\ UNCHANGED <<gameBoard, last, occurrences, calls, found, handlers>>

\* NewEngine up to cmd.Start: the process starts, or NewEngine returns the
\* error.
NewEngineStart ==
    /\ uciEngine.pc = "NewEngine"
    /\ \E started \in BOOLEAN :
          EngineBecomes(IF started THEN [uciEngine EXCEPT !.pc = "sendUci"]
                        ELSE [uciEngine EXCEPT !.pc = "returned", !.returned = "error"])

\* A command of initialize is sent; when sendCommand fails initialize
\* returns its error and NewEngine closes the engine and returns the error.
InitializeSend(from, command, to) ==
    /\ uciEngine.pc = from
    /\ \E written \in BOOLEAN :
          LET Sent(r) ==
                IF r.err = "nil" THEN [r.e EXCEPT !.pc = to]
                ELSE [r.e EXCEPT !.pc = "returned", !.returned = "error"]
          IN EngineBecomes(Sent(sendCommand(uciEngine, command, written)))

InitializeSendUci == InitializeSend("sendUci", "uci", "waitUciok")

\* One turn of the loop that waits for uciok: Scan fails at the end of the
\* output and the loop is left, or the line is uciok and the loop is left,
\* or the line is skipped.
InitializeWaitUciok ==
    /\ uciEngine.pc = "waitUciok"
    /\ EngineBecomes(
          IF uciEngine.output = <<>> THEN [uciEngine EXCEPT !.pc = "sendIsready"]
          ELSE IF Head(uciEngine.output) = "uciok"
          THEN [uciEngine EXCEPT !.pc = "sendIsready", !.output = Tail(@)]
          ELSE [uciEngine EXCEPT !.output = Tail(@)])

InitializeSendIsready == InitializeSend("sendIsready", "isready", "waitReadyok")

\* One turn of the loop that waits for readyok; when the loop is left
\* initialize returns nil and NewEngine returns the engine.
InitializeWaitReadyok ==
    /\ uciEngine.pc = "waitReadyok"
    /\ EngineBecomes(
          IF uciEngine.output = <<>>
          THEN [uciEngine EXCEPT !.pc = "returned", !.returned = "engine"]
          ELSE IF Head(uciEngine.output) = "readyok"
          THEN [uciEngine EXCEPT !.pc = "returned", !.returned = "engine", !.ready = TRUE,
                                 !.output = Tail(@)]
          ELSE [uciEngine EXCEPT !.output = Tail(@)])

\* Engine.SetPosition on the engine NewEngine returned, the process being
\* alive or not and the write succeeding or not.
CallSetPosition ==
    /\ uciEngine.pc = "returned"
    /\ uciEngine.returned = "engine"
    /\ \E alive \in BOOLEAN, written \in BOOLEAN :
          LET Sent(r) ==
                IF r.err = "nil" THEN [r.e EXCEPT !.pc = "used", !.setPosition = "nil"]
                ELSE [r.e EXCEPT !.pc = "used", !.setPosition = "failed to set position"]
          IN EngineBecomes(
               IF ~uciEngine.ready
               THEN [uciEngine EXCEPT !.pc = "used", !.setPosition = "engine not ready"]
               ELSE IF ~alive
               THEN [uciEngine EXCEPT !.pc = "used",
                                      !.setPosition = "engine process is not alive"]
               ELSE Sent(sendCommand(uciEngine, "position fen", written)))

\* NewEngine is called for a process that will write some lines and end.
UCIInit ==
    /\ gameBoard = NewBoard
    /\ last = Fresh.last
    /\ occurrences = Fresh.occurrences
    /\ calls = 0
    /\ found = [BestMove |-> NoMove, Score |-> 0]
    /\ handlers = [h \in Handlers |-> Idle]
    /\ \E n \in 0..MaxLines : \E output \in [1..n -> EngineLines] :
          uciEngine = [NoEngine EXCEPT !.pc = "NewEngine", !.output = output]

UCINext ==
    \/ NewEngineStart
    \/ InitializeSendUci
    \/ InitializeWaitUciok
    \/ InitializeSendIsready
    \/ InitializeWaitReadyok
    \/ CallSetPosition

UCISpec == UCIInit /\ [][UCINext]_vars

\* -------------------------------------------------------------- properties
\* C1: for every move that GenerateMoves returns on the board, makeMove
\* followed by undoMove with the returned undo information gives back the
\* board exactly as it was: squares, side to move, castling rights, en
\* passant target and every PositionHistory counter.
C1_MakeUndoRestores ==
    LET Restores(g) ==
          \A k \in 1..Len(g.moves) :
             LET Undone(m) == m.undoInfo.ok /\ undoMove(m.b, g.moves[k], m.undoInfo) = g.b
             IN Undone(makeMove(g.b, g.moves[k]))
    IN Restores(GenerateMoves(gameBoard))

\* C2: when FindBestMove has returned, the board is identical to the board
\* before the call.
C2_SearchRestores ==
    last.op = "FindBestMove" => gameBoard = last.before

\* C3: a MakeUCIMove or MakeMove call that returns an error leaves the board
\* exactly as it was before the call.
C3_RejectedMoveLeavesBoard ==
    (last.op \in {"MakeUCIMove", "MakeMove"} /\ ~last.applied) => gameBoard = last.before

\* A move was tried on the board, found to expose the mover's king, taken
\* back and rejected.
C3_Witness ==
    /\ calls > 0
    /\ last.op = "MakeUCIMove"
    /\ last.err = "move would put king in check"

\* C4: after every move MakeUCIMove or MakeMove has accepted, the king of the
\* side that moved is not attacked.
C4_MoverNotInCheck ==
    (last.op \in {"MakeUCIMove", "MakeMove"} /\ last.applied)
        => ~IsInCheck(gameBoard, last.before.WhiteToMove)

\* C5: after every applied move, by MakeUCIMove, MakeMove, ExecuteEngineMove
\* or the search's makeMove, the position reached has a PositionHistory
\* counter of at least 1.
C5_PositionCounted ==
    /\ last.applied => GetPositionCount(gameBoard) >= 1
    /\ LET Counted(g) ==
             \A k \in 1..Len(g.moves) : GetPositionCount(makeMove(g.b, g.moves[k]).b) >= 1
       IN Counted(GenerateMoves(gameBoard))

\* C6: after an applied move EnPassant is empty, unless the move was a
\* two-square pawn advance, and then it names the square the pawn passed over.
C6_EnPassantFollowsDoublePush ==
    LET Pushed(before, fromRank, toRank, pawn) ==
          {f \in 0..7 : /\ GetPiece(before, fromRank, f) = pawn
                        /\ GetPiece(gameBoard, fromRank, f) = Empty
                        /\ GetPiece(before, toRank, f) = Empty
                        /\ GetPiece(gameBoard, toRank, f) = pawn}
        Follows(files, passedRank) ==
          IF files = {} THEN gameBoard.EnPassant = <<>>
          ELSE \E f \in files : gameBoard.EnPassant = GetSquareName(passedRank, f)
    IN last.applied =>
          IF last.before.WhiteToMove
          THEN Follows(Pushed(last.before, 6, 4, WP), 5)
          ELSE Follows(Pushed(last.before, 1, 3, BP), 2)

\* C7: an applied move that takes a king off its home square clears both
\* castling rights of its colour, one that takes a rook off its home corner
\* (by moving it or capturing it) clears the right of that corner, and no
\* applied move gives back a right that was cleared.
C7_CastlingRightsCleared ==
    LET Left(rank, file, piece) ==
          GetPiece(last.before, rank, file) = piece /\ GetPiece(gameBoard, rank, file) # piece
        Held(bit) == HasBit(gameBoard.CastlingRights, bit)
    IN last.applied =>
          /\ Left(7, 4, WK) => ~Held(1) /\ ~Held(2)
          /\ Left(0, 4, BK) => ~Held(4) /\ ~Held(8)
          /\ Left(7, 7, WR) => ~Held(1)
          /\ Left(7, 0, WR) => ~Held(2)
          /\ Left(0, 7, BR) => ~Held(4)
          /\ Left(0, 0, BR) => ~Held(8)
          /\ \A bit \in {1, 2, 4, 8} : Held(bit) => HasBit(last.before.CastlingRights, bit)

C9_OneKingEach ==
    /\ Cardinality({i \in 0..63 : gameBoard.Squares[i] = WK}) = 1
    /\ Cardinality({i \in 0..63 : gameBoard.Squares[i] = BK}) = 1

\* C10: when an applied move brings about a position for the third time,
\* IsThreefoldRepetition is true and Evaluate is 0 for it.
C10_ThirdOccurrenceIsDraw ==
    (last.applied /\ HistoryGet(occurrences, GetPositionHash(gameBoard)) >= 3)
        => IsThreefoldRepetition(gameBoard) /\ Evaluate(gameBoard) = 0

\* ------------------------------------------------------ the rules of chess
\* What the properties below mean by a legal move of the side to move: a step
\* from square i to square j that obeys the piece's movement rule, does not
\* land on an own piece and leaves the own king unattacked.
RuleStep(b, i, j) ==
    /\ i # j
    /\ b.Squares[i] # Empty
    /\ IsWhitePiece(b.Squares[i]) = b.WhiteToMove
    /\ (b.Squares[j] = Empty \/ IsWhitePiece(b.Squares[j]) # b.WhiteToMove)
    /\ isValidMove(b, b.Squares[i], i \div 8, i % 8, j \div 8, j % 8, b.Squares[j] # Empty)
    /\ ~IsInCheck(TryMove(b, i \div 8, i % 8, j \div 8, j % 8, b.Squares[i]), b.WhiteToMove)

\* A capture en passant from i onto the en passant target j: the opposing
\* pawn stands beside the capturing pawn, on the file of j.
RuleEnPassant(b, i, j) ==
    /\ b.Squares[i] = (IF b.WhiteToMove THEN WP ELSE BP)
    /\ b.EnPassant = GetSquareName(j \div 8, j % 8)
    /\ j \div 8 = i \div 8 + (IF b.WhiteToMove THEN 0 - 1 ELSE 1)
    /\ abs((j % 8) - (i % 8)) = 1
    /\ b.Squares[j] = Empty
    /\ b.Squares[(i \div 8) * 8 + (j % 8)] = (IF b.WhiteToMove THEN BP ELSE WP)
    /\ ~IsInCheck(SetPiece(TryMove(b, i \div 8, i % 8, j \div 8, j % 8, b.Squares[i]),
                           i \div 8, j % 8, Empty),
                  b.WhiteToMove)

\* The side to move has a legal move: a step, a capture en passant or a
\* castling move.
HasLegalMove(b) ==
    \/ \E i \in 0..63, j \in 0..63 : RuleStep(b, i, j) \/ RuleEnPassant(b, i, j)
    \/ \E castleType \in {KingSide, QueenSide} : canCastle(b, castleType, b.WhiteToMove)

\* C11: IsDraw is true exactly when the position has occurred at least three
\* times or the side to move is stalemated, that is, not in check and
\* without a legal move.
C11_DrawIsRepetitionOrStalemate ==
    IsDraw(gameBoard) <=>
        \/ HistoryGet(occurrences, GetPositionHash(gameBoard)) >= 3
        \/ /\ ~IsInCheck(gameBoard, gameBoard.WhiteToMove)
           /\ ~HasLegalMove(gameBoard)

\* C12: isCheckmate of the side to move is true exactly when that side is in
\* check and GenerateMoves returns no move for it.
C12_CheckmateIsCheckWithoutMoves ==
    IsCheckmate(gameBoard, gameBoard.WhiteToMove) <=>
        /\ IsInCheck(gameBoard, gameBoard.WhiteToMove)
        /\ GenerateMoves(gameBoard).moves = <<>>

\* C13: on the standard initial position GenerateMoves returns exactly 20
\* moves for White, 16 pawn moves and 4 knight moves.
C13_InitialPositionHasTwentyMoves ==
    LET Counted(moveList) ==
          /\ Len(moveList) = 20
          /\ Cardinality({k \in 1..Len(moveList) : moveList[k].Piece = <<"P">>}) = 16
          /\ Cardinality({k \in 1..Len(moveList) : moveList[k].Piece = <<"N">>}) = 4
    IN (gameBoard.Squares = InitialSquares /\ gameBoard.WhiteToMove)
          => Counted(GenerateMoves(gameBoard).moves)

\* The board stands in the initial position with White to move, and
\* GenerateMoves has moves for it.
C13_Witness ==
    /\ gameBoard.Squares = InitialSquares
    /\ gameBoard.WhiteToMove
    /\ GenerateMoves(gameBoard).moves # <<>>

\* C14: GenerateMoves returns exactly the legal moves of the side to move:
\* every returned move is a legal step or capture en passant, every legal
\* step and capture en passant is returned, once per promotion piece when a
\* pawn reaches the last rank, and every castling move that canCastle allows
\* is returned.
C14_GeneratesExactlyLegalMoves ==
    LET At(name) == NameRank(name) * 8 + NameFile(name)
        Promotes(i, j) ==
          /\ gameBoard.Squares[i] \in {WP, BP}
          /\ j \div 8 = (IF gameBoard.WhiteToMove THEN 0 ELSE 7)
        Exactly(moveList) ==
          /\ \A k \in 1..Len(moveList) :
                \/ RuleStep(gameBoard, At(moveList[k].From), At(moveList[k].To))
                \/ RuleEnPassant(gameBoard, At(moveList[k].From), At(moveList[k].To))
          /\ \A i \in 0..63, j \in 0..63 :
                (RuleStep(gameBoard, i, j) \/ RuleEnPassant(gameBoard, i, j)) =>
                   \A p \in (IF Promotes(i, j) THEN 1..4 ELSE {0}) :
                      \E k \in 1..Len(moveList) :
                         /\ At(moveList[k].From) = i
                         /\ At(moveList[k].To) = j
                         /\ p # 0 => moveList[k].Promote = <<PromotionPieces[p]>>
          /\ \A castleType \in {KingSide, QueenSide} :
                canCastle(gameBoard, castleType, gameBoard.WhiteToMove) =>
                   \E k \in 1..Len(moveList) : moveList[k].Castle = castleType
    IN Exactly(GenerateMoves(gameBoard).moves)

\* C15: when the side to move had a legal move, the move FindBestMove
\* returned is one of the moves GenerateMoves returns for the position it
\* was given.
C15_BestMoveIsLegal ==
    LET Member(moveList) ==
          moveList # <<>> =>
             \E k \in 1..Len(moveList) :
                /\ moveList[k].From = found.BestMove.From
                /\ moveList[k].To = found.BestMove.To
                /\ moveList[k].Promote = found.BestMove.Promote
    IN last.op = "FindBestMove" => Member(GenerateMoves(last.before).moves)

\* C19: the same piece placement, neither drawn nor repeated, evaluates to
\* the same value with White to move and with Black to move.
C19_EvaluateIgnoresSideToMove ==
    LET Same(other) ==
          (/\ ~IsDraw(gameBoard) /\ ~IsDraw(other)
           /\ GetPositionCount(gameBoard) < 2 /\ GetPositionCount(other) < 2)
             => Evaluate(gameBoard) = Evaluate(other)
    IN Same([gameBoard EXCEPT !.WhiteToMove = ~@])

\* C20: when the opening heuristic did not apply and a legal move existed,
\* the score FindBestMove(p, 1) returned is the negation of Evaluate on the
\* position that applying the returned move to p gives.
C20_ScoreIsNegatedEvaluation ==
    (/\ last.op = "FindBestMove"
     /\ getOpeningMove(last.before) = <<>>
     /\ GenerateMoves(last.before).moves # <<>>)
        => found.Score = 0 - Evaluate(makeMove(last.before, found.BestMove).b)

\* C16: every capture en passant the rules allow on the board is accepted by
\* MakeUCIMove, and afterwards the capturing pawn stands on the target
\* square, its origin is empty, and the square behind the target (file of
\* the target, rank of the capturing pawn) is empty.
C16_EnPassantCaptureIsApplied ==
    \A i \in 0..63, j \in 0..63 :
       RuleEnPassant(gameBoard, i, j) =>
          LET Applied(r) ==
                /\ r.err = "nil"
                /\ r.b.Squares[j] = gameBoard.Squares[i]
                /\ r.b.Squares[i] = Empty
                /\ r.b.Squares[(i \div 8) * 8 + (j % 8)] = Empty
          IN Applied(MakeUCIMove(gameBoard, GetSquareName(i \div 8, i % 8)
                                              \o GetSquareName(j \div 8, j % 8)))

\* C17: for every promotion move GenerateMoves returns on the board, the
\* search's makeMove, MakeUCIMove with the promotion letter and MakeMove with
\* "=" and the letter each leave the requested piece of the mover's colour on
\* the destination square, and MakeUCIMove and MakeMove without a letter
\* leave a queen.
C17_PromotionReplacesPawn ==
    LET Requested(letter) ==
          CASE letter = <<"R">> -> IF gameBoard.WhiteToMove THEN WR ELSE BR
            [] letter = <<"B">> -> IF gameBoard.WhiteToMove THEN WB ELSE BB
            [] letter = <<"N">> -> IF gameBoard.WhiteToMove THEN WN ELSE BN
            [] OTHER -> IF gameBoard.WhiteToMove THEN WQ ELSE BQ
        At(name) == NameRank(name) * 8 + NameFile(name)
        Stands(r, square, piece) == r.err = "nil" /\ r.b.Squares[square] = piece
        Written(move) ==
          IF move.From[1] = move.To[1] THEN move.To ELSE <<move.From[1], "x">> \o move.To
        Promotes(moveList) ==
          \A k \in 1..Len(moveList) :
             moveList[k].Promote # <<>> =>
                /\ makeMove(gameBoard, moveList[k]).b.Squares[At(moveList[k].To)]
                      = Requested(moveList[k].Promote)
                /\ Stands(MakeUCIMove(gameBoard, moveList[k].From \o moveList[k].To
                                                    \o ToLower(moveList[k].Promote)),
                          At(moveList[k].To), Requested(moveList[k].Promote))
                /\ Stands(MakeUCIMove(gameBoard, moveList[k].From \o moveList[k].To),
                          At(moveList[k].To), Requested(<<"Q">>))
                /\ Stands(MakeMove(gameBoard, Written(moveList[k]) \o <<"=">>
                                                  \o moveList[k].Promote),
                          At(moveList[k].To), Requested(moveList[k].Promote))
                /\ Stands(MakeMove(gameBoard, Written(moveList[k])),
                          At(moveList[k].To), Requested(<<"Q">>))
    IN Promotes(GenerateMoves(gameBoard).moves)

\* C18: when the last call was accepted and castled (MakeMove with "O-O" or
\* "O-O-O", or MakeUCIMove taking the king from the e-file of its home rank
\* to the g- or c-file), then on the board before the call the mover held the castling right for that
\* side, its king stood on the e-file and its rook in the corner of its home
\* rank, every square between them was empty, the king was not in check and
\* neither the square it crossed nor the square it landed on was attacked;
\* and on the board after the call the king stands two files toward the
\* rook, the rook on the square the king crossed, and their home squares are
\* empty.
C18_CastlingOnlyWhenAllowed ==
    LET Castled(before, isWhite, short) ==
          LET home == IF isWhite THEN 7 ELSE 0
              corner == IF short THEN 7 ELSE 0
              landing == IF short THEN 6 ELSE 2
              crossed == IF short THEN 5 ELSE 3
              right == IF isWhite THEN (IF short THEN 1 ELSE 2) ELSE (IF short THEN 4 ELSE 8)
          IN /\ HasBit(before.CastlingRights, right)
             /\ before.Squares[home * 8 + 4] = (IF isWhite THEN WK ELSE BK)
             /\ before.Squares[home * 8 + corner] = (IF isWhite THEN WR ELSE BR)
             /\ \A file \in (IF short THEN 5..6 ELSE 1..3) :
                   before.Squares[home * 8 + file] = Empty
             /\ ~IsInCheck(before, isWhite)
             /\ ~isSquareAttacked(before, home, crossed, ~isWhite)
             /\ ~isSquareAttacked(before, home, landing, ~isWhite)
             /\ gameBoard.Squares[home * 8 + landing] = (IF isWhite THEN WK ELSE BK)
             /\ gameBoard.Squares[home * 8 + crossed] = (IF isWhite THEN WR ELSE BR)
             /\ gameBoard.Squares[home * 8 + 4] = Empty
             /\ gameBoard.Squares[home * 8 + corner] = Empty
        Recorded(played) ==
          /\ Len(played) >= 3 /\ SubSeq(played, 1, 3) = KingSide
          /\ Castled(last.before, last.before.WhiteToMove,
                     ~(Len(played) >= 5 /\ SubSeq(played, 1, 5) = QueenSide))
    IN (/\ last.applied
        /\ \/ last.op = "MakeMove"
           \/ /\ last.op = "MakeUCIMove"
              /\ last.before.Squares[(IF last.before.WhiteToMove THEN 7 ELSE 0) * 8 + 4]
                    = (IF last.before.WhiteToMove THEN WK ELSE BK)
        /\ gameBoard.MovesPlayed # <<>>
        /\ Len(gameBoard.MovesPlayed[Len(gameBoard.MovesPlayed)]) >= 3
        /\ SubSeq(gameBoard.MovesPlayed[Len(gameBoard.MovesPlayed)], 1, 3) = KingSide)
          => Recorded(gameBoard.MovesPlayed[Len(gameBoard.MovesPlayed)])

\* C21: the FEN text ToFEN writes for the board is accepted by FromFEN, and
\* ToFEN of the board FromFEN then holds is that text, character for
\* character.
C21_FENTextRoundTrips ==
    LET Same(text, parsed) == parsed.err = "nil" /\ ToFEN(parsed.b) = text
    IN Same(ToFEN(gameBoard), FromFEN(gameBoard, ToFEN(gameBoard)))

\* A FEN text with an en-passant target and the castling rights of one side
\* only has been read by FromFEN.
C21_Witness ==
    /\ calls > 0
    /\ last.op = "FromFEN" /\ last.applied
    /\ gameBoard.EnPassant # <<>>
    /\ gameBoard.CastlingRights \notin {0, 15}

\* C22: FromFEN of the board's FEN text gives a board equal to it in all 64
\* squares, side to move, castling rights, en-passant target, halfmove clock
\* and fullmove number.
C22_PositionRoundTrips ==
    LET Same(parsed) ==
          /\ parsed.err = "nil"
          /\ parsed.b.Squares = gameBoard.Squares
          /\ parsed.b.WhiteToMove = gameBoard.WhiteToMove
          /\ parsed.b.CastlingRights = gameBoard.CastlingRights
          /\ parsed.b.EnPassant = gameBoard.EnPassant
          /\ parsed.b.HalfMoveClock = gameBoard.HalfMoveClock
          /\ parsed.b.FullMoveNumber = gameBoard.FullMoveNumber
    IN Same(FromFEN(NewBoard, ToFEN(gameBoard)))

\* A position reached by applied moves, with Black to move, captures made
\* and a castling right lost, is written and read back.
C22_Witness ==
    /\ calls > 0
    /\ last.op = "MakeUCIMove" /\ last.applied
    /\ ~gameBoard.WhiteToMove
    /\ gameBoard.CastlingRights \notin {0, 15}
    /\ Cardinality({sq \in 0..63 : gameBoard.Squares[sq] # Empty}) < 32

\* C23: a FromFEN call that returns an error leaves the board exactly as it
\* was before the call: squares, side to move, castling rights, en-passant
\* target, clocks and PositionHistory.
C23_RejectedFENLeavesBoard ==
    (last.op = "FromFEN" /\ ~last.applied) => gameBoard = last.before

\* C25: when MakeUCIMove has just applied a move, a successful UndoMove
\* gives the position before that move (squares, side to move, castling
\* rights, en-passant target) with as many moves recorded; on a game
\* without moves UndoMove leaves the board and reports "No moves to undo!".
C25_UndoRestoresPreviousPosition ==
    LET Undone(r) ==
          r.err = "nil" =>
             /\ r.b.Squares = last.before.Squares
             /\ r.b.WhiteToMove = last.before.WhiteToMove
             /\ r.b.CastlingRights = last.before.CastlingRights
             /\ r.b.EnPassant = last.before.EnPassant
             /\ Len(r.b.MovesPlayed) = Len(last.before.MovesPlayed)
    IN /\ (last.op = "MakeUCIMove" /\ last.applied) => Undone(UndoMove(gameBoard))
       /\ gameBoard.MovesPlayed = <<>> =>
             UndoMove(gameBoard) = [b |-> gameBoard, err |-> "No moves to undo!"]

\* C24: at most one handler is between its first and its last access to
\* the shared board.
C24_OneMutatorAtATime ==
    Cardinality({h \in Handlers : handlers[h] # Idle}) <= 1

\* C26: on the board as NewBoard creates it, Evaluate returns a score other
\* than 0.
C26_InitialEvaluationNonZero ==
    gameBoard = NewBoard => Evaluate(gameBoard) # 0

\* C27: when FindBestMove was called with White to move and no move played,
\* with White to move, two moves played and a white knight on g1, or with
\* Black to move after a single move recorded as e4 or d4, it returned the
\* book move (e2-e4, g1-f3, e7-e5, d7-d5) with score 0 and left the board as
\* it was; and with more than six moves played the book gives no move.
C27_OpeningHeuristicAnswers ==
    LET Book(from, to, piece) ==
          /\ found.BestMove = [NoMove EXCEPT !.From = from, !.To = to, !.Piece = piece]
          /\ found.Score = 0
          /\ gameBoard = last.before
        Asked(p, n) ==
          /\ (p.WhiteToMove /\ n = 0) => Book(<<"e", "2">>, <<"e", "4">>, <<"P">>)
          /\ (p.WhiteToMove /\ n = 2 /\ p.Squares[7 * 8 + 6] = WN)
                => Book(<<"g", "1">>, <<"f", "3">>, <<"N">>)
          /\ (~p.WhiteToMove /\ n = 1 /\ p.MovesPlayed[1] = <<"e", "4">>)
                => Book(<<"e", "7">>, <<"e", "5">>, <<"P">>)
          /\ (~p.WhiteToMove /\ n = 1 /\ p.MovesPlayed[1] = <<"d", "4">>)
                => Book(<<"d", "7">>, <<"d", "5">>, <<"P">>)
          /\ n > 6 => getOpeningMove(p) = <<>>
    IN last.op = "FindBestMove" => Asked(last.before, Len(last.before.MovesPlayed))

\* FindBestMove has answered from the book for White's second move.
C27_Witness ==
    /\ last.op = "FindBestMove"
    /\ Len(last.before.MovesPlayed) = 2
    /\ found.BestMove.To = <<"f", "3">>
    /\ found.Score = 0

\* The remaining depths minimax is asked about at a node.
NodeDepths == {0, 1}

\* C28: at a position that is not a draw and where the side to move has no
\* legal move, minimax called for that side returns 0 when the side is not
\* in check, and otherwise 10000 plus the remaining depth, negative when
\* White is the side to move and positive when Black is.
C28_TerminalNodeScore ==
    LET Mate(b, depth) == IF b.WhiteToMove THEN 0 - 10000 - depth ELSE 10000 + depth
        Scored(b, depth, r) ==
          r.score = (IF IsInCheck(b, b.WhiteToMove) THEN Mate(b, depth) ELSE 0)
    IN (~IsDraw(gameBoard) /\ ~HasLegalMove(gameBoard))
          => \A depth \in NodeDepths :
                Scored(gameBoard, depth,
                       minimax(gameBoard, depth, 0 - MaxInt32, MaxInt32,
                               gameBoard.WhiteToMove, NoMove))

\* C29: a call of quiesceSearch with qDepth above 8 returns the static
\* evaluation of the board without a call below it and leaves the board as
\* it was; no call made below a call of quiesceSearch has a qDepth above 9,
\* so a line entered at qDepth 0 holds at most 9 moves; and FindBestMove
\* returns a score.
C29_QuiescenceIsBounded ==
    /\ last.op = "quiesceSearch"
          => /\ found.deepest <= max(found.qDepth, 9)
             /\ found.qDepth > 8
                   => /\ found.deepest = found.qDepth
                      /\ found.Score = Evaluate(last.before)
                      /\ gameBoard = last.before
    /\ last.op = "FindBestMove" => found.Score \in Int

\* quiesceSearch, entered just below its limit, has stopped a line of
\* captures and checks at qDepth 9.
C29_Witness ==
    /\ last.op = "quiesceSearch"
    /\ found.qDepth < 8
    /\ found.deepest = 9

\* ------------------------------------------------- the search without cuts
\* What the property below compares the search with: the same walks over the
\* same moves, made and taken back in the same order on the same board, with
\* no window, so that no move is ever skipped.
RECURSIVE ExhaustiveQuiesce(_, _)
RECURSIVE ExhaustiveQuiesceLoop(_, _, _, _, _, _)

\* The best of standPat and the negated values of all tactical moves
\* tacticalMoves[lo..hi], the first half of them before the second: [b, best]
ExhaustiveQuiesceLoop(b, tacticalMoves, lo, hi, best, qDepth) ==
    LET Searched(move, m, r) ==
          [b |-> undoMove(r.b, move, m.undoInfo), best |-> max(best, 0 - r.score)]
        Made(move, m) ==
          IF ~m.undoInfo.ok THEN [b |-> m.b, best |-> best]
          ELSE Searched(move, m, ExhaustiveQuiesce(m.b, qDepth + 1))
        Then(first) ==
          IF first.best \in Int
          THEN ExhaustiveQuiesceLoop(first.b, tacticalMoves, (lo + hi) \div 2 + 1, hi,
                                     first.best, qDepth)
          ELSE first
    IN IF lo > hi THEN [b |-> b, best |-> best]
       ELSE IF lo = hi THEN Made(tacticalMoves[lo], makeMove(b, tacticalMoves[lo]))
       ELSE Then(ExhaustiveQuiesceLoop(b, tacticalMoves, lo, (lo + hi) \div 2, best, qDepth))

\* The value of b for the side to move over all lines of captures and
\* checks, as deep as quiesceSearch may go: [b, score]
ExhaustiveQuiesce(b, qDepth) ==
    LET Looped(r) == [b |-> r.b, score |-> r.best]
        Tactical(standPat, t) ==
          Looped(ExhaustiveQuiesceLoop(t.b, t.moves, 1, Len(t.moves), standPat, qDepth))
    IN IF QuiesceLimitReached(qDepth) THEN [b |-> b, score |-> Evaluate(b)]
       ELSE Tactical(Evaluate(b), generateTacticalMoves(b))

RECURSIVE ExhaustiveMinimax(_, _, _)
RECURSIVE ExhaustiveLoop(_, _, _, _, _, _, _)

\* The largest (maximizingPlayer) or smallest value of all the moves
\* legalMoves[lo..hi]: [b, score]
ExhaustiveLoop(b, legalMoves, lo, hi, depth, maximizingPlayer, bestScore) ==
    LET Searched(move, m, r) ==
          [b |-> undoMove(r.b, move, m.undoInfo),
           score |-> IF maximizingPlayer THEN max(bestScore, r.score)
                     ELSE min(bestScore, r.score)]
        Made(move, m) ==
          IF ~m.undoInfo.ok THEN [b |-> m.b, score |-> bestScore]
          ELSE Searched(move, m, ExhaustiveMinimax(m.b, depth - 1, ~maximizingPlayer))
        Then(first) ==
          IF first.score \in Int
          THEN ExhaustiveLoop(first.b, legalMoves, (lo + hi) \div 2 + 1, hi, depth,
                              maximizingPlayer, first.score)
          ELSE first
    IN IF lo > hi THEN [b |-> b, score |-> bestScore]
       ELSE IF lo = hi THEN Made(legalMoves[lo], makeMove(b, legalMoves[lo]))
       ELSE Then(ExhaustiveLoop(b, legalMoves, lo, (lo + hi) \div 2, depth,
                                maximizingPlayer, bestScore))

\* The value of b over all lines of depth moves, each leaf having the value
\* quiesceSearch gives it when it is asked with the full window: [b, score]
ExhaustiveMinimax(b, depth, maximizingPlayer) ==
    LET Ordered(o) ==
          IF Len(o.moves) = 0
          THEN IF IsInCheck(o.b, o.b.WhiteToMove)
               THEN [b |-> o.b,
                     score |-> IF maximizingPlayer THEN 0 - 10000 - depth ELSE 10000 + depth]
               ELSE [b |-> o.b, score |-> 0]
          ELSE ExhaustiveLoop(o.b, o.moves, 1, Len(o.moves), depth, maximizingPlayer,
                              IF maximizingPlayer THEN 0 - MaxInt32 ELSE MaxInt32)
        Generated(g) == Ordered(orderMoves(g.moves, g.b, NoMove))
        Leaf(q) == [b |-> q.b, score |-> q.score]
    IN IF IsDraw(b) THEN [b |-> b, score |-> 0]
       ELSE IF depth = 0 THEN Leaf(quiesceSearch(b, 0 - MaxInt32, MaxInt32, 0))
       ELSE Generated(GenerateMoves(b))

\* C30: the score minimax returns for a board, entered with the full window,
\* is the score of the search without cuts over the same moves to the same
\* depth; and the score quiesceSearch returns, entered with the full window
\* near its depth limit, is the score of the quiescence search without cuts.
C30_PruningKeepsTheScore ==
    /\ last.op = "minimax"
          => found.Score = ExhaustiveMinimax(last.before, found.depth,
                                             last.before.WhiteToMove).score
    /\ (last.op = "quiesceSearch" /\ found.qDepth >= 6)
          => found.Score = ExhaustiveQuiesce(last.before, found.qDepth).score

\* minimax has searched two moves deep and a move loop below the root was
\* ended by the cutoff.
C30_Witness ==
    /\ last.op = "minimax"
    /\ found.depth = 2
    /\ found.pruned

\* C31: orderMoves, given the legal moves of the board and no previous best
\* move, returns all captures first, a capture with a larger victim value
\* minus attacker value never after one with a smaller, then the moves onto
\* an empty square that give check, then the remaining moves.
C31_OrderIsCapturesChecksQuiet ==
    LET Gain(b, move) ==
          getPieceValueForOrdering(b.Squares[GetSquare(b, move.To)])
            - getPieceValueForOrdering(b.Squares[GetSquare(b, move.From)])
        Class(b, move) ==
          IF b.Squares[GetSquare(b, move.To)] # Empty THEN 1
          ELSE IF CheckTrial(b, move).givesCheck THEN 2
          ELSE 3
        InOrder(n, class, gain) ==
          \A i \in 1..n : \A j \in (i + 1)..n :
              /\ class[i] <= class[j]
              /\ (class[i] = 1 /\ class[j] = 1) => gain[i] >= gain[j]
        Ranked(b, ordered) ==
          InOrder(Len(ordered),
                  [k \in 1..Len(ordered) |-> Class(b, ordered[k])],
                  [k \in 1..Len(ordered) |-> Gain(b, ordered[k])])
    IN Ranked(gameBoard, orderMoves(GenerateMoves(gameBoard).moves, gameBoard, NoMove).moves)

\* What the property below means by an attack: the piece on square i attacks
\* square j when a pawn stands one rank behind j (seen from its own side) on
\* a neighbouring file, a knight stands an L-jump away, a bishop, rook or
\* queen stands on a line with j (diagonal for the bishop, straight for the
\* rook, either for the queen) with every square between them empty, or a
\* king stands on a neighbouring square.
RuleAttacks(b, i, j) ==
    LET dr == (j \div 8) - (i \div 8)
        df == (j % 8) - (i % 8)
        steps == max(abs(dr), abs(df))
        Clear == \A e \in 1..(steps - 1) :
                    b.Squares[i + e * (sign(dr) * 8 + sign(df))] = Empty
        Diagonal == abs(dr) = abs(df) /\ Clear
        Straight == (dr = 0 \/ df = 0) /\ Clear
        piece == b.Squares[i]
    IN /\ i # j
       /\ CASE piece = WP -> dr = 0 - 1 /\ abs(df) = 1
            [] piece = BP -> dr = 1 /\ abs(df) = 1
            [] piece \in {WN, BN} -> {abs(dr), abs(df)} = {1, 2}
            [] piece \in {WB, BB} -> Diagonal
            [] piece \in {WR, BR} -> Straight
            [] piece \in {WQ, BQ} -> Diagonal \/ Straight
            [] piece \in {WK, BK} -> steps = 1
            [] OTHER -> FALSE

\* C32: for every square of the board and either colour, isSquareAttacked
\* is true exactly when a piece of that colour attacks the square.
C32_AttackedIffSomePieceAttacks ==
    \A j \in 0..63 : \A attackerIsWhite \in BOOLEAN :
        isSquareAttacked(gameBoard, j \div 8, j % 8, attackerIsWhite)
          <=> \E i \in 0..63 :
                  /\ gameBoard.Squares[i] # Empty
                  /\ IsWhitePiece(gameBoard.Squares[i]) = attackerIsWhite
                  /\ RuleAttacks(gameBoard, i, j)

\* A move has been applied that leaves the side to move in check from a
\* queen standing more than one square away from the king.
C32_Witness ==
    /\ last.applied
    /\ IsInCheck(gameBoard, gameBoard.WhiteToMove)
    /\ \E i \in 0..63, j \in 0..63 :
          /\ gameBoard.Squares[i] = (IF gameBoard.WhiteToMove THEN BQ ELSE WQ)
          /\ gameBoard.Squares[j] = (IF gameBoard.WhiteToMove THEN WK ELSE BK)
          /\ max(abs((j \div 8) - (i \div 8)), abs((j % 8) - (i % 8))) > 1
          /\ RuleAttacks(gameBoard, i, j)

\* The board b seen from the other side: every piece on the same file with
\* its rank flipped and its colour changed, and the other side to move.
ColourSwapped(b) ==
    LET Other(piece) == IF piece = Empty THEN Empty
                        ELSE IF IsWhitePiece(piece) THEN piece + 6 ELSE piece - 6
    IN [b EXCEPT !.Squares = [i \in 0..63 |-> Other(b.Squares[(7 - (i \div 8)) * 8 + (i % 8)])],
                 !.WhiteToMove = ~b.WhiteToMove]

\* C33: evaluatePosition of the board and of its colour-swapped, vertically
\* mirrored counterpart are exact negatives of each other.
C33_PositionScoreIsColourSymmetric ==
    evaluatePosition(ColourSwapped(gameBoard)) = 0 - evaluatePosition(gameBoard)

\* C34: GenerateMoves returns its moves with the origin squares in
\* rank-major, file-major order, and returns the same moves in the same
\* order on a board that is equal in squares, side to move, castling rights
\* and en-passant target but has another past.
C34_GenerationIsDeterministic ==
    LET Origin(b, move) == GetSquare(b, move.From)
        RankMajor(b, moveList) ==
          \A k \in 1..(Len(moveList) - 1) :
              Origin(b, moveList[k]) <= Origin(b, moveList[k + 1])
        Again(moveList) ==
          GenerateMoves([gameBoard EXCEPT !.MovesPlayed = <<>>,
                                          !.PositionHistory = <<>>]).moves = moveList
        Both(moveList) == RankMajor(gameBoard, moveList) /\ Again(moveList)
    IN Both(GenerateMoves(gameBoard).moves)

\* A move has been applied and GenerateMoves returns moves from more than one
\* origin square on the board it leaves.
C34_Witness ==
    LET Several(moveList) ==
          \E k \in 1..Len(moveList) : moveList[k].From # moveList[1].From
    IN /\ last.applied
       /\ gameBoard.MovesPlayed # <<>>
       /\ Several(GenerateMoves(gameBoard).moves)

\* C35: GenerateMoves leaves the board it was called on exactly as it was:
\* squares, side to move, castling rights, en-passant target,
\* PositionHistory and MovesPlayed.  (IsDraw, isCheckmate and Evaluate put
\* back the two squares of every trial move themselves and so are values of
\* the board alone.)
C35_QueriesLeaveBoard ==
    GenerateMoves(gameBoard).b = gameBoard

\* C36: orderMoves, given the legal moves of the board, returns every one of
\* them exactly once, whether there is no previous best move or the previous
\* best move is the first move of the list or one of its promotions.
C36_OrderIsPermutation ==
    LET Count(moveList, move) ==
          Cardinality({k \in 1..Len(moveList) : moveList[k] = move})
        Permuted(moveList, ordered) ==
          /\ Len(ordered) = Len(moveList)
          /\ \A k \in 1..Len(moveList) :
                Count(ordered, moveList[k]) = Count(moveList, moveList[k])
        Previous(moveList) ==
          {NoMove} \cup {moveList[k] : k \in {j \in 1..Len(moveList) :
                                                 j = 1 \/ moveList[j].Promote # <<>>}}
        Each(moveList) ==
          \A prevBestMove \in Previous(moveList) :
              Permuted(moveList, orderMoves(moveList, gameBoard, prevBestMove).moves)
    IN Each(GenerateMoves(gameBoard).moves)

\* The side to move has a pawn that promotes, so that four of its legal
\* moves share origin, destination and piece.
C36_Witness ==
    LET Promoting(moveList) ==
          \E k \in 1..Len(moveList) : \E j \in 1..Len(moveList) :
              /\ k # j
              /\ movesEqual(moveList[k], moveList[j])
              /\ moveList[k].Promote = <<"N">>
    IN Promoting(GenerateMoves(gameBoard).moves)

C38_ReturnedEngineIsReady ==
    uciEngine.returned = "engine"
        => /\ uciEngine.ready
           /\ Len(uciEngine.stdin) >= 2
           /\ uciEngine.stdin[1] = "uci"
           /\ uciEngine.stdin[2] = "isready"

====
